---- MODULE Spec2Model ----
(***************************************************************************)
(* Digital-logic circuit simulator: the ten experiment logic functions,    *)
(* the Simulator component that drives them (experiment selection, input   *)
(* toggles, clock ticks, clock-edge detection, layout measurement and the  *)
(* wires of every render), the IC package library with its pin geometry,   *)
(* the wire derivation getWires, and harnesses that call the logic         *)
(* functions, getWires and calculatePinPositions directly.                 *)
(*                                                                         *)
(* JavaScript values that can be a boolean or undefined are the strings    *)
(* "true", "false" and "undefined"; numbers are integers, pixel            *)
(* coordinates exact fractions; arrays are sequences; objects are records  *)
(* (functions from field names).                                           *)
(***************************************************************************)
EXTENDS Integers, Sequences, FiniteSets, TLC

VARIABLES
  \* ---- Simulator component (React state, refs, render position) ----
  selectedExperiment,   \* useState: id of the active experiment
  inputValues,          \* useState: Record<string, boolean>
  outputValues,         \* useState: Record<string, boolean>
  clockTick,            \* useState: number
  clockRunning,         \* useState: boolean
  circuitStateRef,      \* useRef: the live circuit state
  previousClockRef,     \* useRef: tick seen by the last evaluation
  pc,                   \* "mount" | "rerender" | "idle": pending commit
  \* ---- record of the evaluation effect's last run ----
  evalEdge,             \* clockEdge passed to the last evaluation
  evalTick,             \* clockTick read by the last evaluation
  evalPrevTick,         \* clockTick read by the evaluation before it
  evalCause,            \* what triggered the last evaluation
  layoutMetrics,        \* useState: LayoutMetrics | null
  wireCalls,            \* the getWires calls made by the renders of the
                        \* last step: [experiment, inputs, outputs, layout,
                        \* wires], in call order
  \* ---- direct single-call harness of logic() ----
  lExp, lInputs, lEdge, \* arguments of the call
  lArg,                 \* value of the state object when it was handed over
  lStateObj,            \* current content of that same state object
  lRes,                 \* result of the first call
  lRes2,                \* result of the repeated call
  lAltState, lAltRes,   \* a call with the same inputs and another state
  lOther,               \* number of unrelated calls made in between
  lpc,                  \* "start" | "once" | "twice" | "alt"
  \* ---- run harness: consecutive logic() calls threading newState ----
  rExp, rState, rOut,   \* experiment, state after the last call, its outputs
  rLast, rPrev,         \* the last call and the one before: [inputs, edge, before]
  rRun, rRunBase,       \* length of the current run of identical calls, and
                        \* the state the run started from
  \* ---- trace harness: logic() called repeatedly from initialState() ----
  tExp, tState, tOut,   \* experiment, state after the last call, its outputs
  tLast,                \* the last call: [inputs, edge, before, outBefore]
  tSamples,             \* bits sampled on clock edges, most recent first
  tEdges,               \* number of clock-edge calls made so far
  tOverrideSeen,        \* some call so far had Override asserted
  tHeld,                \* state at which the current Override stretch began
  tReleasedFrom,        \* tHeld of the stretch that the last call ended
  \* ---- wire harness: one getWires call on a given layout ----
  wExp, wInputs, wOutputs, \* experiment, input vector, output vector
  wLayout,              \* the LayoutMetrics handed to getWires
  wWires,               \* the Wire[] it returned
  wpc,                  \* "start" | "called"
  \* ---- pin harness: one calculatePinPositions call ----
  pPart,                \* part number looked up in IC_LIBRARY
  pBox,                 \* [x, y, width, height] of the chip
  pPositions,           \* the PinPosition[] it returned
  ppc,                  \* "start" | "called"
  \* ---- MQTT bridge: MQTTService, its clients, the useMQTT hook ----
  mClient,              \* MQTTService.client: NoClient or a client number
  mConnected,           \* MQTTService.connected
  mCallbacks,           \* MQTTService.messageCallbacks: topic -> handlers
  cState,               \* per client: connecting|connected|closed|ended|gone
  cSubs,                \* per client: the topics it subscribed at the broker
  inflight,             \* messages sent by the broker, not yet received
  mLast,                \* what the step just taken did
  hMounted,             \* the component using useMQTT is mounted
  hIsConnected,         \* useState: isConnected
  hExp,                 \* experimentId of the hook's current render
  hHandlers,            \* the messageHandler closures created, in order
  hSubs,                \* subscriptionsRef.current: topic -> handler
  hOutstanding,         \* unsubscribe functions returned and not yet called
  bInputs,              \* the input vector hardware updates are written to
  bSynced               \* isConnected seen by the subscribing effect's last run

driverVars == <<selectedExperiment, inputValues, outputValues, clockTick,
                clockRunning, circuitStateRef, previousClockRef, pc,
                evalEdge, evalTick, evalPrevTick, evalCause,
                layoutMetrics, wireCalls>>
logicVars == <<lExp, lInputs, lEdge, lArg, lStateObj, lRes, lRes2,
               lAltState, lAltRes, lOther, lpc>>
runVars == <<rExp, rState, rOut, rLast, rPrev, rRun, rRunBase>>
traceVars == <<tExp, tState, tOut, tLast, tSamples, tEdges, tOverrideSeen,
               tHeld, tReleasedFrom>>
wireVars == <<wExp, wInputs, wOutputs, wLayout, wWires, wpc>>
pinVars == <<pPart, pBox, pPositions, ppc>>
mqttVars == <<mClient, mConnected, mCallbacks, cState, cSubs, inflight,
              mLast, hMounted, hIsConnected, hExp, hHandlers, hSubs,
              hOutstanding, bInputs, bSynced>>
vars == <<driverVars, logicVars, runVars, traceVars, wireVars, pinVars,
          mqttVars>>

---------------------------------------------------------------------------
(* JavaScript value semantics used by the logic functions *)

Bool(b) == IF b THEN "true" ELSE "false"

Truthy(v) == v = "true"

\* inputs.X / state.X : a missing property reads as undefined
Get(rec, id) == IF id \in DOMAIN rec THEN rec[id] ELSE "undefined"

\* state.f || dflt, for a field that holds a number or an array
FieldOr(rec, f, dflt) == IF f \in DOMAIN rec THEN rec[f] ELSE dflt

\* a && b
JsAnd(a, b) == IF Truthy(a) THEN b ELSE a

\* a || b
JsOr(a, b) == IF Truthy(a) THEN a ELSE b

\* a !== b on booleans / undefined
StrictNeq(a, b) == Bool(a # b)

\* c ? a : b
Cond(c, a, b) == IF Truthy(c) THEN a ELSE b

RECURSIVE BitAnd(_, _)
BitAnd(a, b) ==
  IF a = 0 \/ b = 0 THEN 0
  ELSE 2 * BitAnd(a \div 2, b \div 2)
       + (IF a % 2 = 1 /\ b % 2 = 1 THEN 1 ELSE 0)

RECURSIVE BitOr(_, _)
BitOr(a, b) ==
  IF a = 0 THEN b
  ELSE IF b = 0 THEN a
  ELSE 2 * BitOr(a \div 2, b \div 2)
       + (IF a % 2 = 1 \/ b % 2 = 1 THEN 1 ELSE 0)

ShiftLeft(a, n) == a * (2 ^ n)

ShiftRight(a, n) == a \div (2 ^ n)

\* Boolean(n) for a number n
NumToBool(n) == Bool(n # 0)

EmptyState == <<>>

---------------------------------------------------------------------------
(* The experiment catalog *)

ExperimentList ==
  << "logic-gates", "full-adder", "multiplexer", "priority-encoder",
     "sr-latch", "counter", "shift-register", "sequence-detector",
     "fsm-accumulator", "traffic-light" >>

ExperimentIds == { ExperimentList[i] : i \in 1..Len(ExperimentList) }

InputList(e) ==
  CASE e = "logic-gates"       -> << "A", "B", "C" >>
    [] e = "full-adder"        -> << "A", "B", "Cin" >>
    [] e = "multiplexer"       -> << "Select", "In0", "In1" >>
    [] e = "priority-encoder"  -> << "I0", "I1", "I2", "I3" >>
    [] e = "sr-latch"          -> << "Set1", "Set2", "Set3", "Reset" >>
    [] e = "counter"           -> << "CountUp", "CountDown" >>
    [] e = "shift-register"    -> << "Data" >>
    [] e = "sequence-detector" -> << "Bit", "Reset" >>
    [] e = "fsm-accumulator"   -> << "Add1", "Add2", "Reset" >>
    [] e = "traffic-light"     -> << "Override" >>

OutputList(e) ==
  CASE e = "logic-gates"       -> << "Y" >>
    [] e = "full-adder"        -> << "Sum", "Cout" >>
    [] e = "multiplexer"       -> << "Y" >>
    [] e = "priority-encoder"  -> << "Y1", "Y0" >>
    [] e = "sr-latch"          -> << "Q1", "Q2", "Q3" >>
    [] e = "counter"           -> << "Q3", "Q2", "Q1", "Q0" >>
    [] e = "shift-register"    ->
         << "Q0", "Q1", "Q2", "Q3", "Q4", "Q5", "Q6", "Q7" >>
    [] e = "sequence-detector" -> << "Detected" >>
    [] e = "fsm-accumulator"   -> << "Overflow", "Carry" >>
    [] e = "traffic-light"     -> << "R1", "Y1", "G1", "R2", "Y2", "G2" >>

InputIds(e) == { InputList(e)[i] : i \in 1..Len(InputList(e)) }

\* every declared input has value: false
InitialInputs(e) == [id \in InputIds(e) |-> "false"]

HasClockNoCounter(e) ==
  e \in { "shift-register", "sequence-detector", "fsm-accumulator",
          "traffic-light" }

\* hasClock: true is declared by five experiments and absent from the rest
HasClock(e) ==
  e \in { "counter", "shift-register", "sequence-detector",
          "fsm-accumulator", "traffic-light" }

InitialState(e) ==
  CASE e = "sr-latch"          -> [Q1 |-> "false", Q2 |-> "false", Q3 |-> "false"]
    [] e = "counter"           -> [count |-> 0]
    [] e = "shift-register"    -> [register |-> 0]
    [] e = "sequence-detector" -> [history |-> <<>>]
    [] e = "fsm-accumulator"   -> [accumulator |-> 0]
    [] e = "traffic-light"     -> [state |-> 0, subCycle |-> 0]
    [] OTHER                   -> EmptyState

---------------------------------------------------------------------------
(* The logic functions.  Each returns [outputs, newState, stateAfter]:     *)
(* outputs and newState are the returned object's fields, stateAfter is    *)
(* the content of the state object that was passed in, once the call has   *)
(* returned (a function that never writes through `state` leaves it as it  *)
(* was).                                                                   *)

LogicGatesLogic(inputs, state, clockEdge) ==
  [ outputs |-> [Y |-> JsOr(JsAnd(Get(inputs, "A"), Get(inputs, "B")),
                            Get(inputs, "C"))],
    newState |-> state,
    stateAfter |-> state ]

\* an adder whose carry ignores Cin
FullAdderLogicNoCarryIn(inputs, state, clockEdge) ==
  LET A == Get(inputs, "A")
      B == Get(inputs, "B")
      Cin == Get(inputs, "Cin")
  IN [ outputs |->
         [ Sum |-> StrictNeq(StrictNeq(A, B), Cin),
           Cout |-> JsAnd(A, B) ],
       newState |-> state,
       stateAfter |-> state ]

FullAdderLogic(inputs, state, clockEdge) ==
  LET A == Get(inputs, "A")
      B == Get(inputs, "B")
      Cin == Get(inputs, "Cin")
  IN [ outputs |->
         [ Sum |-> StrictNeq(StrictNeq(A, B), Cin),
           Cout |-> JsOr(JsAnd(A, B), JsAnd(Cin, StrictNeq(A, B))) ],
       newState |-> state,
       stateAfter |-> state ]

MultiplexerLogic(inputs, state, clockEdge) ==
  [ outputs |-> [Y |-> Cond(Get(inputs, "Select"), Get(inputs, "In1"),
                            Get(inputs, "In0"))],
    newState |-> state,
    stateAfter |-> state ]

\* an encoder that returns a new empty object as newState
PriorityEncoderLogicFreshState(inputs, state, clockEdge) ==
  [ outputs |->
      [ Y1 |-> JsOr(Get(inputs, "I3"), Get(inputs, "I2")),
        Y0 |-> JsOr(Get(inputs, "I3"),
                    JsAnd(Bool(~Truthy(Get(inputs, "I2"))), Get(inputs, "I1"))) ],
    newState |-> EmptyState,
    stateAfter |-> state ]

\* an encoder that tests its inputs from I0 upwards: the lowest wins
PriorityEncoderLogicLowestWins(inputs, state, clockEdge) ==
  LET outputs ==
        IF Truthy(Get(inputs, "I0")) THEN [Y1 |-> "false", Y0 |-> "false"]
        ELSE IF Truthy(Get(inputs, "I1")) THEN [Y1 |-> "false", Y0 |-> "true"]
        ELSE IF Truthy(Get(inputs, "I2")) THEN [Y1 |-> "true", Y0 |-> "false"]
        ELSE IF Truthy(Get(inputs, "I3")) THEN [Y1 |-> "true", Y0 |-> "true"]
        ELSE [Y1 |-> "false", Y0 |-> "false"]
  IN [ outputs |-> outputs, newState |-> state, stateAfter |-> state ]

PriorityEncoderLogic(inputs, state, clockEdge) ==
  LET outputs ==
        IF Truthy(Get(inputs, "I3")) THEN [Y1 |-> "true", Y0 |-> "true"]
        ELSE IF Truthy(Get(inputs, "I2")) THEN [Y1 |-> "true", Y0 |-> "false"]
        ELSE IF Truthy(Get(inputs, "I1")) THEN [Y1 |-> "false", Y0 |-> "true"]
        ELSE IF Truthy(Get(inputs, "I0")) THEN [Y1 |-> "false", Y0 |-> "false"]
        ELSE [Y1 |-> "false", Y0 |-> "false"]
  IN [ outputs |-> outputs, newState |-> state, stateAfter |-> state ]

\* a latch in which an asserted Set wins over Reset
SrLatchLogicSetWins(inputs, state, clockEdge) ==
  LET reset == Truthy(Get(inputs, "Reset"))
      Latch(q, set) ==
        IF Truthy(Get(inputs, set)) THEN "true"
        ELSE IF reset THEN "false"
        ELSE Get(state, q)
      q == [ Q1 |-> Latch("Q1", "Set1"),
             Q2 |-> Latch("Q2", "Set2"),
             Q3 |-> Latch("Q3", "Set3") ]
  IN [ outputs |-> q, newState |-> q, stateAfter |-> state ]

SrLatchLogic(inputs, state, clockEdge) ==
  LET reset == Truthy(Get(inputs, "Reset"))
      Latch(q, set) ==
        IF reset THEN "false"
        ELSE IF Truthy(Get(inputs, set)) THEN "true"
        ELSE Get(state, q)
      q == [ Q1 |-> Latch("Q1", "Set1"),
             Q2 |-> Latch("Q2", "Set2"),
             Q3 |-> Latch("Q3", "Set3") ]
  IN [ outputs |-> q, newState |-> q, stateAfter |-> state ]

CounterModulus == 16

\* a decrement that forgets the "+ 16" of the wrap
CounterNextNoWrap(inputs, count) ==
  IF Truthy(Get(inputs, "CountUp")) /\ ~Truthy(Get(inputs, "CountDown"))
    THEN (count + 1) % CounterModulus
  ELSE IF Truthy(Get(inputs, "CountDown")) /\ ~Truthy(Get(inputs, "CountUp"))
    THEN IF count = 0 THEN 0 ELSE count - 1
  ELSE count

\* an increment that wraps one count too early
CounterNextShortCycle(inputs, count) ==
  IF Truthy(Get(inputs, "CountUp")) /\ ~Truthy(Get(inputs, "CountDown"))
    THEN (count + 1) % (CounterModulus - 1)
  ELSE IF Truthy(Get(inputs, "CountDown")) /\ ~Truthy(Get(inputs, "CountUp"))
    THEN (count - 1 + CounterModulus) % CounterModulus
  ELSE count

\* the body of `if (clockEdge) { ... }`
CounterNext(inputs, count) ==
  IF Truthy(Get(inputs, "CountUp")) /\ ~Truthy(Get(inputs, "CountDown"))
    THEN (count + 1) % CounterModulus
  ELSE IF Truthy(Get(inputs, "CountDown")) /\ ~Truthy(Get(inputs, "CountUp"))
    THEN (count - 1 + CounterModulus) % CounterModulus
  ELSE count

\* a counter that counts on every evaluation, edge or not
CounterLogicEveryCall(inputs, state, clockEdge) ==
  LET newCount == CounterNext(inputs, FieldOr(state, "count", 0))
  IN [ outputs |-> [ Q3 |-> NumToBool(BitAnd(newCount, 8)),
                     Q2 |-> NumToBool(BitAnd(newCount, 4)),
                     Q1 |-> NumToBool(BitAnd(newCount, 2)),
                     Q0 |-> NumToBool(BitAnd(newCount, 1)) ],
       newState |-> [count |-> newCount],
       stateAfter |-> state ]

\* a counter whose outputs show the count before the transition
CounterLogicStaleOutputs(inputs, state, clockEdge) ==
  LET count0 == FieldOr(state, "count", 0)
      newCount == IF clockEdge THEN CounterNext(inputs, count0) ELSE count0
  IN [ outputs |-> [ Q3 |-> NumToBool(BitAnd(count0, 8)),
                     Q2 |-> NumToBool(BitAnd(count0, 4)),
                     Q1 |-> NumToBool(BitAnd(count0, 2)),
                     Q0 |-> NumToBool(BitAnd(count0, 1)) ],
       newState |-> [count |-> newCount],
       stateAfter |-> state ]

CounterLogic(inputs, state, clockEdge) ==
  LET count0 == FieldOr(state, "count", 0)
      newCount == IF clockEdge THEN CounterNext(inputs, count0) ELSE count0
  IN [ outputs |-> [ Q3 |-> NumToBool(BitAnd(newCount, 8)),
                     Q2 |-> NumToBool(BitAnd(newCount, 4)),
                     Q1 |-> NumToBool(BitAnd(newCount, 2)),
                     Q0 |-> NumToBool(BitAnd(newCount, 1)) ],
       newState |-> [count |-> newCount],
       stateAfter |-> state ]

RegisterMask == 255

\* a shift that forgets the "& 0xFF": the register keeps more than 8 bits
ShiftRegisterLogicNoMask(inputs, state, clockEdge) ==
  LET reg0 == FieldOr(state, "register", 0)
      newRegister ==
        IF clockEdge
          THEN BitOr(ShiftLeft(reg0, 1),
                     IF Truthy(Get(inputs, "Data")) THEN 1 ELSE 0)
          ELSE reg0
      Q(k) == NumToBool(BitAnd(ShiftRight(newRegister, k), 1))
  IN [ outputs |-> [ Q0 |-> Q(0), Q1 |-> Q(1), Q2 |-> Q(2), Q3 |-> Q(3),
                     Q4 |-> Q(4), Q5 |-> Q(5), Q6 |-> Q(6), Q7 |-> Q(7) ],
       newState |-> [register |-> newRegister],
       stateAfter |-> state ]

\* a register that shifts the other way: the new bit enters at position 7
ShiftRegisterLogicShiftRight(inputs, state, clockEdge) ==
  LET reg0 == FieldOr(state, "register", 0)
      newRegister ==
        IF clockEdge
          THEN BitAnd(BitOr(ShiftRight(reg0, 1),
                            IF Truthy(Get(inputs, "Data")) THEN 128 ELSE 0),
                      RegisterMask)
          ELSE reg0
      Q(k) == NumToBool(BitAnd(ShiftRight(newRegister, k), 1))
  IN [ outputs |-> [ Q0 |-> Q(0), Q1 |-> Q(1), Q2 |-> Q(2), Q3 |-> Q(3),
                     Q4 |-> Q(4), Q5 |-> Q(5), Q6 |-> Q(6), Q7 |-> Q(7) ],
       newState |-> [register |-> newRegister],
       stateAfter |-> state ]

ShiftRegisterLogic(inputs, state, clockEdge) ==
  LET reg0 == FieldOr(state, "register", 0)
      newRegister ==
        IF clockEdge
          THEN BitAnd(BitOr(ShiftLeft(reg0, 1),
                            IF Truthy(Get(inputs, "Data")) THEN 1 ELSE 0),
                      RegisterMask)
          ELSE reg0
      Q(k) == NumToBool(BitAnd(ShiftRight(newRegister, k), 1))
  IN [ outputs |-> [ Q0 |-> Q(0), Q1 |-> Q(1), Q2 |-> Q(2), Q3 |-> Q(3),
                     Q4 |-> Q(4), Q5 |-> Q(5), Q6 |-> Q(6), Q7 |-> Q(7) ],
       newState |-> [register |-> newRegister],
       stateAfter |-> state ]

HistoryLimit == 3

\* `let history = state.history || []`: no copy, the local aliases the argument
HistoryRefAliased(state) ==
  IF "history" \in DOMAIN state THEN "arg" ELSE "fresh"

\* `let history = [...(state.history || [])]`: the local is a fresh array
HistoryRef(state) == "fresh"

\* a detector that trims with pop() instead of shift(): once three samples
\* are held the newest is dropped, not the oldest
SequenceDetectorLogicDropsNewest(inputs, state, clockEdge) ==
  LET src == FieldOr(state, "history", <<>>)
      heap0 == [arg |-> src, fresh |-> src]
      ref == HistoryRef(state)
      reset == Truthy(Get(inputs, "Reset"))
      pushed == Append(heap0[ref], IF Truthy(Get(inputs, "Bit")) THEN 1 ELSE 0)
      popped == IF Len(pushed) > HistoryLimit
                  THEN SubSeq(pushed, 1, Len(pushed) - 1)
                  ELSE pushed
      heap1 == IF ~reset /\ clockEdge
                 THEN [heap0 EXCEPT ![ref] = popped]
                 ELSE heap0
      history == IF reset THEN <<>> ELSE heap1[ref]
      detected == /\ Len(history) = 3
                  /\ history[1] = 1
                  /\ history[2] = 0
                  /\ history[3] = 1
  IN [ outputs |-> [Detected |-> Bool(detected)],
       newState |-> [history |-> history],
       stateAfter |-> IF "history" \in DOMAIN state
                        THEN [state EXCEPT !.history = heap1.arg]
                        ELSE state ]

\* a detector whose Reset is looked at only between clock edges
SequenceDetectorLogicClockFirst(inputs, state, clockEdge) ==
  LET src == FieldOr(state, "history", <<>>)
      heap0 == [arg |-> src, fresh |-> src]
      ref == HistoryRef(state)
      reset == Truthy(Get(inputs, "Reset")) /\ ~clockEdge
      pushed == Append(heap0[ref], IF Truthy(Get(inputs, "Bit")) THEN 1 ELSE 0)
      shifted == IF Len(pushed) > HistoryLimit THEN Tail(pushed) ELSE pushed
      heap1 == IF clockEdge
                 THEN [heap0 EXCEPT ![ref] = shifted]
                 ELSE heap0
      history == IF reset THEN <<>> ELSE heap1[ref]
      detected == /\ Len(history) = 3
                  /\ history[1] = 1
                  /\ history[2] = 0
                  /\ history[3] = 1
  IN [ outputs |-> [Detected |-> Bool(detected)],
       newState |-> [history |-> history],
       stateAfter |-> IF "history" \in DOMAIN state
                        THEN [state EXCEPT !.history = heap1.arg]
                        ELSE state ]

\* a detector that samples Bit on every call, clock edge or not
SequenceDetectorLogicSamplesAlways(inputs, state, clockEdge) ==
  LET src == FieldOr(state, "history", <<>>)
      heap0 == [arg |-> src, fresh |-> src]
      ref == HistoryRef(state)
      reset == Truthy(Get(inputs, "Reset"))
      pushed == Append(heap0[ref], IF Truthy(Get(inputs, "Bit")) THEN 1 ELSE 0)
      shifted == IF Len(pushed) > HistoryLimit THEN Tail(pushed) ELSE pushed
      heap1 == IF ~reset
                 THEN [heap0 EXCEPT ![ref] = shifted]
                 ELSE heap0
      history == IF reset THEN <<>> ELSE heap1[ref]
      detected == /\ Len(history) = 3
                  /\ history[1] = 1
                  /\ history[2] = 0
                  /\ history[3] = 1
  IN [ outputs |-> [Detected |-> Bool(detected)],
       newState |-> [history |-> history],
       stateAfter |-> IF "history" \in DOMAIN state
                        THEN [state EXCEPT !.history = heap1.arg]
                        ELSE state ]

SequenceDetectorLogic(inputs, state, clockEdge) ==
  LET src == FieldOr(state, "history", <<>>)
      \* two array objects: the argument's and the spread copy
      heap0 == [arg |-> src, fresh |-> src]
      ref == HistoryRef(state)
      reset == Truthy(Get(inputs, "Reset"))
      pushed == Append(heap0[ref], IF Truthy(Get(inputs, "Bit")) THEN 1 ELSE 0)
      shifted == IF Len(pushed) > HistoryLimit THEN Tail(pushed) ELSE pushed
      \* push() and shift() write into the array `history` refers to
      heap1 == IF ~reset /\ clockEdge
                 THEN [heap0 EXCEPT ![ref] = shifted]
                 ELSE heap0
      \* `history = []` rebinds the local and writes into no array
      history == IF reset THEN <<>> ELSE heap1[ref]
      detected == /\ Len(history) = 3
                  /\ history[1] = 1
                  /\ history[2] = 0
                  /\ history[3] = 1
  IN [ outputs |-> [Detected |-> Bool(detected)],
       newState |-> [history |-> history],
       stateAfter |-> IF "history" \in DOMAIN state
                        THEN [state EXCEPT !.history = heap1.arg]
                        ELSE state ]

AccumulatorModulus == 16

OverflowAt == 15

\* an accumulator whose Reset acts only on a clock edge
FsmAccumulatorLogicSyncReset(inputs, state, clockEdge) ==
  LET acc0 == FieldOr(state, "accumulator", 0)
      add == (IF Truthy(Get(inputs, "Add1")) THEN 1 ELSE 0)
             + (IF Truthy(Get(inputs, "Add2")) THEN 2 ELSE 0)
      acc == IF ~clockEdge THEN acc0
             ELSE IF Truthy(Get(inputs, "Reset")) THEN 0
             ELSE (acc0 + add) % AccumulatorModulus
  IN [ outputs |-> [ Overflow |-> Bool(acc >= OverflowAt),
                     Carry |-> Bool(acc > 0) ],
       newState |-> [accumulator |-> acc],
       stateAfter |-> state ]

\* an accumulator whose outputs show the value before the transition
FsmAccumulatorLogicStaleOutputs(inputs, state, clockEdge) ==
  LET acc0 == FieldOr(state, "accumulator", 0)
      add == (IF Truthy(Get(inputs, "Add1")) THEN 1 ELSE 0)
             + (IF Truthy(Get(inputs, "Add2")) THEN 2 ELSE 0)
      acc == IF Truthy(Get(inputs, "Reset")) THEN 0
             ELSE IF clockEdge THEN (acc0 + add) % AccumulatorModulus
             ELSE acc0
  IN [ outputs |-> [ Overflow |-> Bool(acc0 >= OverflowAt),
                     Carry |-> Bool(acc0 > 0) ],
       newState |-> [accumulator |-> acc],
       stateAfter |-> state ]

FsmAccumulatorLogic(inputs, state, clockEdge) ==
  LET acc0 == FieldOr(state, "accumulator", 0)
      add == (IF Truthy(Get(inputs, "Add1")) THEN 1 ELSE 0)
             + (IF Truthy(Get(inputs, "Add2")) THEN 2 ELSE 0)
      acc == IF Truthy(Get(inputs, "Reset")) THEN 0
             ELSE IF clockEdge THEN (acc0 + add) % AccumulatorModulus
             ELSE acc0
  IN [ outputs |-> [ Overflow |-> Bool(acc >= OverflowAt),
                     Carry |-> Bool(acc > 0) ],
       newState |-> [accumulator |-> acc],
       stateAfter |-> state ]

SubCycleLength == 3

\* a cycle that has as many phases as a phase has clock edges
PhaseCountOfSubCycle == SubCycleLength

PhaseCount == 4

Leds(r1, y1, g1, r2, y2, g2) ==
  [ R1 |-> Bool(r1), Y1 |-> Bool(y1), G1 |-> Bool(g1),
    R2 |-> Bool(r2), Y2 |-> Bool(y2), G2 |-> Bool(g2) ]

\* a switch whose case 1 lacks its break and falls through to case 2
TrafficLightOutputsFallThrough(currentState) ==
  CASE currentState = 0 -> Leds(FALSE, FALSE, TRUE, TRUE, FALSE, FALSE)
    [] currentState = 1 -> Leds(TRUE, FALSE, FALSE, FALSE, FALSE, TRUE)
    [] currentState = 2 -> Leds(TRUE, FALSE, FALSE, FALSE, FALSE, TRUE)
    [] currentState = 3 -> Leds(TRUE, FALSE, FALSE, FALSE, TRUE, FALSE)
    [] OTHER            -> Leds(TRUE, FALSE, FALSE, TRUE, FALSE, FALSE)

\* a switch whose case 2 turns G2 on without turning G1 off
TrafficLightOutputsGreenKept(currentState) ==
  CASE currentState = 0 -> Leds(FALSE, FALSE, TRUE, TRUE, FALSE, FALSE)
    [] currentState = 1 -> Leds(FALSE, TRUE, FALSE, TRUE, FALSE, FALSE)
    [] currentState = 2 -> Leds(FALSE, FALSE, TRUE, FALSE, FALSE, TRUE)
    [] currentState = 3 -> Leds(TRUE, FALSE, FALSE, FALSE, TRUE, FALSE)
    [] OTHER            -> Leds(TRUE, FALSE, FALSE, TRUE, FALSE, FALSE)

TrafficLightOutputs(currentState) ==
  CASE currentState = 0 -> Leds(FALSE, FALSE, TRUE, TRUE, FALSE, FALSE)
    [] currentState = 1 -> Leds(FALSE, TRUE, FALSE, TRUE, FALSE, FALSE)
    [] currentState = 2 -> Leds(TRUE, FALSE, FALSE, FALSE, FALSE, TRUE)
    [] currentState = 3 -> Leds(TRUE, FALSE, FALSE, FALSE, TRUE, FALSE)
    [] OTHER            -> Leds(TRUE, FALSE, FALSE, TRUE, FALSE, FALSE)

\* a controller that tests Override after the clock edge has been counted
TrafficLightLogicOverrideLate(inputs, state, clockEdge) ==
  LET state0 == FieldOr(state, "state", 0)
      sub0 == FieldOr(state, "subCycle", 0)
      bumped == sub0 + 1
      wraps == bumped >= SubCycleLength
      subCycle == IF ~clockEdge THEN sub0 ELSE IF wraps THEN 0 ELSE bumped
      currentState == IF clockEdge /\ wraps
                        THEN (state0 + 1) % PhaseCount
                        ELSE state0
  IN IF Truthy(Get(inputs, "Override"))
       THEN [ outputs |-> Leds(TRUE, TRUE, FALSE, TRUE, TRUE, FALSE),
              newState |-> [state |-> currentState, subCycle |-> subCycle],
              stateAfter |-> state ]
       ELSE [ outputs |-> TrafficLightOutputs(currentState),
              newState |-> [state |-> currentState, subCycle |-> subCycle],
              stateAfter |-> state ]

TrafficLightLogic(inputs, state, clockEdge) ==
  LET state0 == FieldOr(state, "state", 0)
      sub0 == FieldOr(state, "subCycle", 0)
      bumped == sub0 + 1
      wraps == bumped >= SubCycleLength
      subCycle == IF ~clockEdge THEN sub0 ELSE IF wraps THEN 0 ELSE bumped
      currentState == IF clockEdge /\ wraps
                        THEN (state0 + 1) % PhaseCount
                        ELSE state0
  IN IF Truthy(Get(inputs, "Override"))
       THEN [ outputs |-> Leds(TRUE, TRUE, FALSE, TRUE, TRUE, FALSE),
              newState |-> [state |-> state0, subCycle |-> sub0],
              stateAfter |-> state ]
       ELSE [ outputs |-> TrafficLightOutputs(currentState),
              newState |-> [state |-> currentState, subCycle |-> subCycle],
              stateAfter |-> state ]

\* selectedExperiment.logic(inputs, state, clockEdge)
Logic(e, inputs, state, clockEdge) ==
  CASE e = "logic-gates"       -> LogicGatesLogic(inputs, state, clockEdge)
    [] e = "full-adder"        -> FullAdderLogic(inputs, state, clockEdge)
    [] e = "multiplexer"       -> MultiplexerLogic(inputs, state, clockEdge)
    [] e = "priority-encoder"  -> PriorityEncoderLogic(inputs, state, clockEdge)
    [] e = "sr-latch"          -> SrLatchLogic(inputs, state, clockEdge)
    [] e = "counter"           -> CounterLogic(inputs, state, clockEdge)
    [] e = "shift-register"    -> ShiftRegisterLogic(inputs, state, clockEdge)
    [] e = "sequence-detector" -> SequenceDetectorLogic(inputs, state, clockEdge)
    [] e = "fsm-accumulator"   -> FsmAccumulatorLogic(inputs, state, clockEdge)
    [] e = "traffic-light"     -> TrafficLightLogic(inputs, state, clockEdge)

---------------------------------------------------------------------------
(* Numbers of the board geometry.  Pixel coordinates are divided by 2 and  *)
(* by pinsPerSide + 1, so they are kept as exact fractions n/d in lowest   *)
(* terms with d > 0 (floating-point rounding is not represented).          *)

Abs(i) == IF i < 0 THEN -i ELSE i

RECURSIVE Gcd(_, _)
Gcd(a, b) == IF b = 0 THEN a ELSE Gcd(b, a % b)

Frac(n, d) ==
  LET g == Gcd(Abs(n), d)
  IN [n |-> n \div g, d |-> d \div g]

Num(i) == Frac(i, 1)

\* a + b
Plus(a, b) == Frac(a.n * b.d + b.n * a.d, a.d * b.d)

\* a * b
Times(a, b) == Frac(a.n * b.n, a.d * b.d)

\* a / k for a positive integer k
Over(a, k) == Frac(a.n, a.d * k)

\* a < b
Less(a, b) == a.n * b.d < b.n * a.d

---------------------------------------------------------------------------
(* The IC package library *)

Def(number, type) == [number |-> number, type |-> type]

\* the pinDefs literal of every package (labels left out)
PinDefs(part) ==
  CASE part = "7408" ->
         << Def(1, "input"), Def(2, "input"), Def(3, "output"),
            Def(4, "input"), Def(5, "input"), Def(6, "output"),
            Def(7, "ground"), Def(8, "output"), Def(9, "input"),
            Def(10, "input"), Def(11, "output"), Def(12, "input"),
            Def(13, "input"), Def(14, "power") >>
    [] part = "7432" ->
         << Def(1, "input"), Def(2, "input"), Def(3, "output"),
            Def(4, "input"), Def(5, "input"), Def(6, "output"),
            Def(7, "ground"), Def(8, "output"), Def(9, "input"),
            Def(10, "input"), Def(11, "output"), Def(12, "input"),
            Def(13, "input"), Def(14, "power") >>
    [] part = "7483" ->
         << Def(1, "input"), Def(2, "output"), Def(3, "input"),
            Def(4, "input"), Def(5, "power"), Def(6, "output"),
            Def(7, "input"), Def(8, "input"), Def(9, "output"),
            Def(10, "input"), Def(11, "input"), Def(12, "ground"),
            Def(13, "input"), Def(14, "output"), Def(15, "output"),
            Def(16, "input") >>
    [] part = "74157" ->
         << Def(1, "control"), Def(2, "input"), Def(3, "input"),
            Def(4, "output"), Def(5, "input"), Def(6, "input"),
            Def(7, "output"), Def(8, "ground"), Def(9, "output"),
            Def(10, "input"), Def(11, "input"), Def(12, "output"),
            Def(13, "input"), Def(14, "input"), Def(15, "control"),
            Def(16, "power") >>
    [] part = "74147" ->
         << Def(1, "input"), Def(2, "input"), Def(3, "input"),
            Def(4, "input"), Def(5, "input"), Def(6, "output"),
            Def(7, "output"), Def(8, "ground"), Def(9, "output"),
            Def(10, "output"), Def(11, "input"), Def(12, "input"),
            Def(13, "input"), Def(14, "input"), Def(15, "input"),
            Def(16, "power") >>
    [] part = "7475" ->
         << Def(1, "output"), Def(2, "output"), Def(3, "input"),
            Def(4, "input"), Def(5, "power"), Def(6, "input"),
            Def(7, "input"), Def(8, "control"), Def(9, "output"),
            Def(10, "output"), Def(11, "output"), Def(12, "ground"),
            Def(13, "control"), Def(14, "output"), Def(15, "output"),
            Def(16, "output") >>
    [] part = "74193" ->
         << Def(1, "input"), Def(2, "output"), Def(3, "output"),
            Def(4, "clock"), Def(5, "clock"), Def(6, "output"),
            Def(7, "output"), Def(8, "ground"), Def(9, "input"),
            Def(10, "input"), Def(11, "control"), Def(12, "output"),
            Def(13, "output"), Def(14, "control"), Def(15, "input"),
            Def(16, "power") >>
    [] part = "74164" ->
         << Def(1, "input"), Def(2, "input"), Def(3, "output"),
            Def(4, "output"), Def(5, "output"), Def(6, "output"),
            Def(7, "ground"), Def(8, "clock"), Def(9, "control"),
            Def(10, "output"), Def(11, "output"), Def(12, "output"),
            Def(13, "output"), Def(14, "power") >>
    [] part = "SEQ101" ->
         << Def(1, "input"), Def(2, "control"), Def(3, "output"),
            Def(4, "output"), Def(5, "output"), Def(6, "output"),
            Def(7, "ground"), Def(8, "clock"), Def(9, "control"),
            Def(10, "control"), Def(11, "control"), Def(12, "control"),
            Def(13, "control"), Def(14, "power") >>
    [] part = "FSM4" ->
         << Def(1, "input"), Def(2, "input"), Def(3, "control"),
            Def(4, "output"), Def(5, "output"), Def(6, "output"),
            Def(7, "ground"), Def(8, "clock"), Def(9, "output"),
            Def(10, "output"), Def(11, "output"), Def(12, "control"),
            Def(13, "control"), Def(14, "power") >>
    [] part = "TRAF6" ->
         << Def(1, "input"), Def(2, "output"), Def(3, "output"),
            Def(4, "output"), Def(5, "power"), Def(6, "output"),
            Def(7, "output"), Def(8, "output"), Def(9, "output"),
            Def(10, "output"), Def(11, "control"), Def(12, "ground"),
            Def(13, "clock"), Def(14, "control"), Def(15, "control"),
            Def(16, "control") >>

PartNumbers ==
  { "7408", "7432", "7483", "74157", "74147", "7475", "74193", "74164",
    "SEQ101", "FSM4", "TRAF6" }

\* the pinCount literal of a package, also handed to createDIPPins
PinCountOf(part) ==
  IF part \in {"7408", "7432", "74164", "SEQ101", "FSM4"} THEN 14 ELSE 16

\* a package whose right side is numbered from the top, like its left
CreateDIPPinsTopDown(pinCount, pinDefs) ==
  LET pinsPerSide == pinCount \div 2
  IN [ i \in 1..Len(pinDefs) |->
         LET def == pinDefs[i]
         IN IF def.number <= pinsPerSide
            THEN [ number |-> def.number, type |-> def.type,
                   side |-> "left", position |-> def.number - 1 ]
            ELSE [ number |-> def.number, type |-> def.type,
                   side |-> "right",
                   position |-> def.number - pinsPerSide - 1 ] ]

CreateDIPPins(pinCount, pinDefs) ==
  LET pinsPerSide == pinCount \div 2
  IN [ i \in 1..Len(pinDefs) |->
         LET def == pinDefs[i]
         IN IF def.number <= pinsPerSide
            THEN [ number |-> def.number, type |-> def.type,
                   side |-> "left", position |-> def.number - 1 ]
            ELSE [ number |-> def.number, type |-> def.type,
                   side |-> "right", position |-> pinCount - def.number ] ]

IC_LIBRARY ==
  [ part \in PartNumbers |->
      [ partNumber |-> part,
        pinCount |-> PinCountOf(part),
        pins |-> CreateDIPPins(PinCountOf(part), PinDefs(part)) ] ]

\* getICPackage(partNumber) is IC_LIBRARY[partNumber] for a known part
HasPackage(part) == part \in DOMAIN IC_LIBRARY

PinLength == 8

\* pins spread over the whole height: the spacing is chipHeight divided by
\* pinsPerSide, so the last pin of a side lies on the bottom edge
CalculatePinPositionsNoMargin(ic, chipX, chipY, chipWidth, chipHeight) ==
  LET pinsPerSide == ic.pinCount \div 2
      pinSpacing == Over(chipHeight, pinsPerSide)
  IN [ i \in 1..Len(ic.pins) |->
         LET pin == ic.pins[i]
         IN [ x |-> IF pin.side = "left"
                    THEN Plus(chipX, Num(-PinLength))
                    ELSE Plus(Plus(chipX, chipWidth), Num(PinLength)),
              y |-> Plus(chipY, Times(pinSpacing, Num(pin.position + 1))),
              number |-> pin.number,
              type |-> pin.type ] ]

CalculatePinPositions(ic, chipX, chipY, chipWidth, chipHeight) ==
  LET pinsPerSide == ic.pinCount \div 2
      pinSpacing == Over(chipHeight, pinsPerSide + 1)
  IN [ i \in 1..Len(ic.pins) |->
         LET pin == ic.pins[i]
         IN [ x |-> IF pin.side = "left"
                    THEN Plus(chipX, Num(-PinLength))
                    ELSE Plus(Plus(chipX, chipWidth), Num(PinLength)),
              y |-> Plus(chipY, Times(pinSpacing, Num(pin.position + 1))),
              number |-> pin.number,
              type |-> pin.type ] ]

\* new Map(positions.map(p => [p.number, p])): a later entry of the same
\* number replaces an earlier one
PositionMap(positions) ==
  [ n \in { positions[i].number : i \in 1..Len(positions) } |->
      LET last == CHOOSE i \in 1..Len(positions) :
                    /\ positions[i].number = n
                    /\ \A j \in 1..Len(positions) :
                         positions[j].number = n => j <= i
      IN positions[last] ]

---------------------------------------------------------------------------
(* Pin mappings and wires of the experiments *)

IcChip(e) ==
  CASE e = "logic-gates"       -> "7408"
    [] e = "full-adder"        -> "7483"
    [] e = "multiplexer"       -> "74157"
    [] e = "priority-encoder"  -> "74147"
    [] e = "sr-latch"          -> "7475"
    [] e = "counter"           -> "74193"
    [] e = "shift-register"    -> "74164"
    [] e = "sequence-detector" -> "SEQ101"
    [] e = "fsm-accumulator"   -> "FSM4"
    [] e = "traffic-light"     -> "TRAF6"

PinMapping(e) ==
  CASE e = "logic-gates" ->
         [ inputs |-> [A |-> 1, B |-> 2, C |-> 4],
           outputs |-> [Y |-> 3] ]
    [] e = "full-adder" ->
         [ inputs |-> [A |-> 10, B |-> 11, Cin |-> 13],
           outputs |-> [Sum |-> 9, Cout |-> 14] ]
    [] e = "multiplexer" ->
         [ inputs |-> [Select |-> 1, In0 |-> 2, In1 |-> 3],
           outputs |-> [Y |-> 4] ]
    [] e = "priority-encoder" ->
         [ inputs |-> [I0 |-> 15, I1 |-> 12, I2 |-> 13, I3 |-> 14],
           outputs |-> [Y1 |-> 9, Y0 |-> 10] ]
    [] e = "sr-latch" ->
         [ inputs |-> [Set1 |-> 3, Set2 |-> 4, Set3 |-> 6, Reset |-> 13],
           outputs |-> [Q1 |-> 1, Q2 |-> 15, Q3 |-> 11] ]
    [] e = "counter" ->
         [ inputs |-> [CountUp |-> 5, CountDown |-> 4],
           outputs |-> [Q3 |-> 7, Q2 |-> 6, Q1 |-> 2, Q0 |-> 3],
           clock |-> 5 ]
    [] e = "shift-register" ->
         [ inputs |-> [Data |-> 1],
           outputs |-> [Q0 |-> 3, Q1 |-> 4, Q2 |-> 5, Q3 |-> 6,
                        Q4 |-> 10, Q5 |-> 11, Q6 |-> 12, Q7 |-> 13],
           clock |-> 8 ]
    [] e = "sequence-detector" ->
         [ inputs |-> [Bit |-> 1, Reset |-> 2],
           outputs |-> [Detected |-> 6],
           clock |-> 8 ]
    [] e = "fsm-accumulator" ->
         [ inputs |-> [Add1 |-> 1, Add2 |-> 2, Reset |-> 3],
           outputs |-> [Overflow |-> 10, Carry |-> 11],
           clock |-> 8 ]
    [] e = "traffic-light" ->
         [ inputs |-> [Override |-> 1],
           outputs |-> [R1 |-> 2, Y1 |-> 3, G1 |-> 4,
                        R2 |-> 6, Y2 |-> 7, G2 |-> 8],
           clock |-> 13 ]

\* an index past the end of an array literal, or a key that an object
\* literal lacks, reads as undefined
At(list, idx) == IF idx \in 1..Len(list) THEN list[idx] ELSE "undefined"

NoPin == 0

PinOf(table, key) == IF key \in DOMAIN table THEN table[key] ELSE NoPin

\* getWires: the key list its input loop indexes with idx
InputWireKeys(e) ==
  CASE e = "logic-gates"       -> <<"A", "B", "C">>
    [] e = "full-adder"        -> <<"A", "B", "Cin">>
    [] e = "multiplexer"       -> <<"Select", "In0", "In1">>
    [] e = "priority-encoder"  -> <<"I0", "I1", "I2", "I3">>
    [] e = "sr-latch"          -> <<"Set1", "Set2", "Set3", "Reset">>
    [] e = "counter"           -> <<"CountUp", "CountDown">>
    [] e = "shift-register"    -> <<"Data">>
    [] e = "sequence-detector" -> <<"Bit", "Reset">>
    [] e = "fsm-accumulator"   -> <<"Add1", "Add2", "Reset">>
    [] e = "traffic-light"     -> <<"Override">>

\* getWires: the pin number its input loop looks up for inputKey
\* counter's getWires with the pins of CountUp and CountDown exchanged
InputWirePinCounterSwapped(e, inputKey) ==
  CASE e = "logic-gates"       -> PinOf([A |-> 1, B |-> 2, C |-> 4], inputKey)
    [] e = "full-adder"        ->
         PinOf([A |-> 10, B |-> 11, Cin |-> 13], inputKey)
    [] e = "multiplexer"       ->
         PinOf([Select |-> 1, In0 |-> 2, In1 |-> 3], inputKey)
    [] e = "priority-encoder"  ->
         PinOf([I0 |-> 15, I1 |-> 12, I2 |-> 13, I3 |-> 14], inputKey)
    [] e = "sr-latch"          ->
         PinOf([Set1 |-> 3, Set2 |-> 4, Set3 |-> 6, Reset |-> 13], inputKey)
    [] e = "counter"           ->
         PinOf([CountUp |-> 4, CountDown |-> 5], inputKey)
    [] e = "shift-register"    -> 1
    [] e = "sequence-detector" -> PinOf([Bit |-> 1, Reset |-> 2], inputKey)
    [] e = "fsm-accumulator"   ->
         PinOf([Add1 |-> 1, Add2 |-> 2, Reset |-> 3], inputKey)
    [] e = "traffic-light"     -> 1

InputWirePin(e, inputKey) ==
  CASE e = "logic-gates"       -> PinOf([A |-> 1, B |-> 2, C |-> 4], inputKey)
    [] e = "full-adder"        ->
         PinOf([A |-> 10, B |-> 11, Cin |-> 13], inputKey)
    [] e = "multiplexer"       ->
         PinOf([Select |-> 1, In0 |-> 2, In1 |-> 3], inputKey)
    [] e = "priority-encoder"  ->
         PinOf([I0 |-> 15, I1 |-> 12, I2 |-> 13, I3 |-> 14], inputKey)
    [] e = "sr-latch"          ->
         PinOf([Set1 |-> 3, Set2 |-> 4, Set3 |-> 6, Reset |-> 13], inputKey)
    [] e = "counter"           ->
         PinOf([CountUp |-> 5, CountDown |-> 4], inputKey)
    [] e = "shift-register"    -> 1
    [] e = "sequence-detector" -> PinOf([Bit |-> 1, Reset |-> 2], inputKey)
    [] e = "fsm-accumulator"   ->
         PinOf([Add1 |-> 1, Add2 |-> 2, Reset |-> 3], inputKey)
    [] e = "traffic-light"     -> 1

\* getWires: the output key of the idx-th output position (a loop that
\* reads outputs.Y or outputs.Detected uses that key at every position)
OutputWireKey(e, idx) ==
  CASE e = "logic-gates"       -> "Y"
    [] e = "full-adder"        -> At(<<"Sum", "Cout">>, idx)
    [] e = "multiplexer"       -> "Y"
    [] e = "priority-encoder"  -> At(<<"Y1", "Y0">>, idx)
    [] e = "sr-latch"          -> At(<<"Q1", "Q2", "Q3">>, idx)
    [] e = "counter"           -> At(<<"Q3", "Q2", "Q1", "Q0">>, idx)
    [] e = "shift-register"    ->
         At(<<"Q0", "Q1", "Q2", "Q3", "Q4", "Q5", "Q6", "Q7">>, idx)
    [] e = "sequence-detector" -> "Detected"
    [] e = "fsm-accumulator"   -> At(<<"Overflow", "Carry">>, idx)
    [] e = "traffic-light"     ->
         At(<<"R1", "Y1", "G1", "R2", "Y2", "G2">>, idx)

\* getWires: the pin number its output loop looks up for outputKey
OutputWirePin(e, outputKey) ==
  CASE e = "logic-gates"       -> 3
    [] e = "full-adder"        -> PinOf([Sum |-> 9, Cout |-> 14], outputKey)
    [] e = "multiplexer"       -> 4
    [] e = "priority-encoder"  -> PinOf([Y1 |-> 9, Y0 |-> 10], outputKey)
    [] e = "sr-latch"          ->
         PinOf([Q1 |-> 1, Q2 |-> 15, Q3 |-> 11], outputKey)
    [] e = "counter"           ->
         PinOf([Q3 |-> 7, Q2 |-> 6, Q1 |-> 2, Q0 |-> 3], outputKey)
    [] e = "shift-register"    ->
         PinOf([Q0 |-> 3, Q1 |-> 4, Q2 |-> 5, Q3 |-> 6,
                Q4 |-> 10, Q5 |-> 11, Q6 |-> 12, Q7 |-> 13], outputKey)
    [] e = "sequence-detector" -> 6
    [] e = "fsm-accumulator"   ->
         PinOf([Overflow |-> 10, Carry |-> 11], outputKey)
    [] e = "traffic-light"     ->
         PinOf([R1 |-> 2, Y1 |-> 3, G1 |-> 4, R2 |-> 6, Y2 |-> 7, G2 |-> 8],
               outputKey)

Point(x, y) == [x |-> x, y |-> y]

\* a wire whose first bend is taken at the end height: its first segment
\* is a diagonal
CreateOrthogonalWireDiagonal(fromX, fromY, toX, toY, active, delay) ==
  LET midX == Over(Plus(fromX, toX), 2)
  IN [ points |-> << Point(fromX, fromY), Point(midX, toY),
                     Point(midX, toY), Point(toX, toY) >>,
       active |-> active,
       delay |-> delay ]

CreateOrthogonalWire(fromX, fromY, toX, toY, active, delay) ==
  LET midX == Over(Plus(fromX, toX), 2)
  IN [ points |-> << Point(fromX, fromY), Point(midX, fromY),
                     Point(midX, toY), Point(toX, toY) >>,
       active |-> active,
       delay |-> delay ]

\* pinPositions?.get(pinNum): <<>> stands for undefined
NoPosition == <<>>

PinPositionOf(layout, pinNum) ==
  IF "pinPositions" \in DOMAIN layout
     /\ pinNum \in DOMAIN layout.pinPositions
  THEN layout.pinPositions[pinNum]
  ELSE NoPosition

\* a fallback wire that is always drawn inactive
CreatePinWireInactiveFallback(fromX, fromY, pinPosition, active, delay) ==
  IF pinPosition = NoPosition
  THEN [ points |-> << Point(fromX, fromY) >>,
         active |-> "false",
         delay |-> delay ]
  ELSE CreateOrthogonalWire(fromX, fromY, pinPosition.x, pinPosition.y,
                            active, delay)

CreatePinWire(fromX, fromY, pinPosition, active, delay) ==
  IF pinPosition = NoPosition
  THEN [ points |-> << Point(fromX, fromY) >>,
         active |-> active,
         delay |-> delay ]
  ELSE CreateOrthogonalWire(fromX, fromY, pinPosition.x, pinPosition.y,
                            active, delay)

InputDelay == Num(0)
OutputDelay == Frac(3, 10)

\* a getWires that pushes the output wires before the input wires
GetWiresOutputsFirst(e, inputs, outputs, layout) ==
  LET InputWire(idx) ==
        LET pos == layout.inputPositions[idx]
            inputKey == At(InputWireKeys(e), idx)
            pinPos == PinPositionOf(layout, InputWirePin(e, inputKey))
        IN CreatePinWire(pos.x, pos.y, pinPos, Get(inputs, inputKey),
                         InputDelay)
      OutputWire(idx) ==
        LET pos == layout.outputPositions[idx]
            outputKey == OutputWireKey(e, idx)
            pinPos == PinPositionOf(layout, OutputWirePin(e, outputKey))
        IN CreatePinWire(
             IF pinPos = NoPosition THEN layout.chipRight ELSE pinPos.x,
             IF pinPos = NoPosition THEN pos.y ELSE pinPos.y,
             Point(pos.x, pos.y), Get(outputs, outputKey), OutputDelay)
  IN [ idx \in 1..Len(layout.outputPositions) |-> OutputWire(idx) ]
       \o [ idx \in 1..Len(layout.inputPositions) |-> InputWire(idx) ]

GetWires(e, inputs, outputs, layout) ==
  LET InputWire(idx) ==
        LET pos == layout.inputPositions[idx]
            inputKey == At(InputWireKeys(e), idx)
            pinPos == PinPositionOf(layout, InputWirePin(e, inputKey))
        IN CreatePinWire(pos.x, pos.y, pinPos, Get(inputs, inputKey),
                         InputDelay)
      OutputWire(idx) ==
        LET pos == layout.outputPositions[idx]
            outputKey == OutputWireKey(e, idx)
            pinPos == PinPositionOf(layout, OutputWirePin(e, outputKey))
        IN CreatePinWire(
             IF pinPos = NoPosition THEN layout.chipRight ELSE pinPos.x,
             IF pinPos = NoPosition THEN pos.y ELSE pinPos.y,
             Point(pos.x, pos.y), Get(outputs, outputKey), OutputDelay)
  IN [ idx \in 1..Len(layout.inputPositions) |-> InputWire(idx) ]
       \o [ idx \in 1..Len(layout.outputPositions) |-> OutputWire(idx) ]

---------------------------------------------------------------------------
(* Harness variables at rest (a specification that does not use a harness  *)
(* keeps its variables at these values).                                   *)

NoResult == <<>>

NoCall == <<>>

LogicAtRest ==
  /\ lExp = "logic-gates" /\ lInputs = <<>> /\ lEdge = FALSE
  /\ lArg = EmptyState /\ lStateObj = EmptyState
  /\ lRes = NoResult /\ lRes2 = NoResult
  /\ lAltState = EmptyState /\ lAltRes = NoResult
  /\ lOther = 0 /\ lpc = "off"

RunAtRest ==
  /\ rExp = "logic-gates" /\ rState = EmptyState /\ rOut = <<>>
  /\ rLast = NoCall /\ rPrev = NoCall /\ rRun = 0 /\ rRunBase = EmptyState

NoHold == <<>>

TraceAtRest ==
  /\ tExp = "logic-gates" /\ tState = EmptyState /\ tOut = <<>>
  /\ tLast = NoCall /\ tSamples = <<>> /\ tEdges = 0
  /\ tOverrideSeen = FALSE /\ tHeld = NoHold /\ tReleasedFrom = NoHold

NoWires == <<>>

WireAtRest ==
  /\ wExp = "logic-gates" /\ wInputs = <<>> /\ wOutputs = <<>>
  /\ wLayout = <<>> /\ wWires = NoWires /\ wpc = "off"

NoPositions == <<>>

PinAtRest ==
  /\ pPart = "7408" /\ pBox = <<>> /\ pPositions = NoPositions
  /\ ppc = "off"

MqttAtRest ==
  /\ mClient = 0 /\ mConnected = FALSE /\ mCallbacks = <<>>
  /\ cState = <<>> /\ cSubs = <<>> /\ inflight = {}
  /\ mLast = [op |-> "none"]
  /\ hMounted = FALSE /\ hIsConnected = FALSE
  /\ hExp = "shift-register"
  /\ hHandlers = <<>> /\ hSubs = <<>> /\ hOutstanding = {}
  /\ bInputs = <<>> /\ bSynced = FALSE

\* useState<LayoutMetrics | null>(null)
NoLayout == <<>>

DriverAtRest ==
  /\ selectedExperiment = ExperimentList[1]
  /\ inputValues = <<>> /\ outputValues = <<>>
  /\ clockTick = 0 /\ clockRunning = FALSE
  /\ circuitStateRef = EmptyState /\ previousClockRef = 0
  /\ pc = "off"
  /\ evalEdge = FALSE /\ evalTick = 0 /\ evalPrevTick = 0
  /\ evalCause = "none"
  /\ layoutMetrics = NoLayout /\ wireCalls = <<>>

---------------------------------------------------------------------------
(* The Simulator component.                                                *)
(*                                                                         *)
(* A commit runs the effects whose dependencies changed, in declaration    *)
(* order: the reset effect [selectedExperiment], then the evaluation       *)
(* effect [inputValues, clockTick, selectedExperiment].  State setters     *)
(* called inside an effect take effect in the next commit; refs are        *)
(* written at once.  pc = "rerender" is the position between the commit    *)
(* that mounted or switched the experiment and the commit that applies     *)
(* the reset effect's setInputValues / setClockTick / setClockRunning.     *)
(*                                                                         *)
(* Every render computes `wires` from the state it renders: the active     *)
(* experiment's getWires is called with the rendered inputValues,          *)
(* outputValues and layoutMetrics, unless layoutMetrics is null.  A commit *)
(* whose evaluation effect calls setOutputValues is followed by a render   *)
(* of the new outputs; the step of the model covers both renders.  The     *)
(* layout effect only requests an animation frame; layoutMetrics changes   *)
(* when the frame callback (or a resize) measures the board.               *)

MaxTick == 3

\* the rectangles getBoundingClientRect() reports, relative to the board:
\* switches in a column on the left, LEDs in a column on the right, one
\* row per declared input / output, the chip in between
BoardGeometry ==
  [ inputRight |-> 48, outputLeft |-> 352,
    rowTop |-> 16, rowPitch |-> 40, rowHeight |-> 25,
    chipLeft |-> 136, chipTop |-> 24, chipWidth |-> 129, chipHeight |-> 160 ]

\* the object updateLayout hands to setLayoutMetrics when it renders
\* experiment e on a board of geometry g: one position per declared input
\* and output, the chip edges, no pinPositions
MeasuredLayout(e, g) ==
  LET RowY(idx) ==
        Plus(Num(g.rowTop + (idx - 1) * g.rowPitch), Over(Num(g.rowHeight), 2))
  IN [ inputPositions |->
         [ idx \in 1..Len(InputList(e)) |->
             Point(Num(g.inputRight), RowY(idx)) ],
       outputPositions |->
         [ idx \in 1..Len(OutputList(e)) |->
             Point(Num(g.outputLeft), RowY(idx)) ],
       chipLeft |-> Num(g.chipLeft),
       chipRight |-> Num(g.chipLeft + g.chipWidth),
       chipCenter |-> Plus(Num(g.chipLeft), Over(Num(g.chipWidth), 2)) ]

\* const wires = layoutMetrics ? selectedExperiment.getWires(inputValues,
\* outputValues, layoutMetrics) : [], as evaluated by one render
RenderWires(e, inputs, outputs, layout) ==
  IF layout = NoLayout THEN <<>>
  ELSE << [ experiment |-> e, inputs |-> inputs, outputs |-> outputs,
            layout |-> layout,
            wires |-> GetWires(e, inputs, outputs, layout) ] >>

\* the reset effect stops the clock: setClockRunning(false)
ResetForgetsClockRunning(running) == running

ResetClockRunning(running) == FALSE

\* the evaluation effect, run in a commit that renders experiment e with
\* input vector `inputs` and tick `tick`, reading the refs `state`, `prev`
EvaluationEffect(e, inputs, tick, state, prev, cause) ==
  LET clockEdge == HasClock(e) /\ tick > prev
      result == Logic(e, inputs, state, clockEdge)
  IN /\ previousClockRef' = tick
     /\ outputValues' = result.outputs
     /\ circuitStateRef' = result.newState
     /\ evalEdge' = clockEdge
     /\ evalTick' = tick
     /\ evalPrevTick' = evalTick
     /\ evalCause' = cause

\* the reset effect followed by the evaluation effect, in the commit that
\* first renders experiment e; the rendered inputValues and clockTick are
\* still those of the previous render
ResetThenEvaluate(e, cause) ==
  /\ EvaluationEffect(e, inputValues, clockTick, InitialState(e), 0, cause)
  /\ pc' = "rerender"
  /\ wireCalls' = RenderWires(e, inputValues, outputValues, layoutMetrics)
  /\ UNCHANGED <<inputValues, clockTick, clockRunning, layoutMetrics>>

\* first commit of the component: useState initial values, all effects run
Mount ==
  /\ pc = "mount"
  /\ selectedExperiment' = selectedExperiment
  /\ ResetThenEvaluate(selectedExperiment, "mount")

\* onClick of an experiment button: setSelectedExperiment(exp)
SelectExperiment(exp) ==
  /\ pc = "idle"
  /\ exp # selectedExperiment
  /\ selectedExperiment' = exp
  /\ ResetThenEvaluate(exp, "switch")

\* the commit that applies the updates queued by the reset effect
Rerender ==
  /\ pc = "rerender"
  /\ inputValues' = InitialInputs(selectedExperiment)
  /\ clockTick' = 0
  /\ clockRunning' = ResetClockRunning(clockRunning)
  /\ EvaluationEffect(selectedExperiment, inputValues', clockTick',
                      circuitStateRef, previousClockRef,
                      IF evalCause = "mount" THEN "mount-reset"
                      ELSE "switch-reset")
  /\ pc' = "idle"
  /\ wireCalls' =
       RenderWires(selectedExperiment, inputValues', outputValues,
                   layoutMetrics)
       \o RenderWires(selectedExperiment, inputValues', outputValues',
                      layoutMetrics)
  /\ UNCHANGED <<selectedExperiment, layoutMetrics>>

\* toggleInput(id), then the commit it causes
ToggleInput(id) ==
  /\ pc = "idle"
  /\ id \in InputIds(selectedExperiment)
  /\ inputValues' =
       (id :> Bool(~Truthy(Get(inputValues, id)))) @@ inputValues
  /\ EvaluationEffect(selectedExperiment, inputValues', clockTick,
                      circuitStateRef, previousClockRef, "toggle")
  /\ wireCalls' =
       RenderWires(selectedExperiment, inputValues', outputValues,
                   layoutMetrics)
       \o RenderWires(selectedExperiment, inputValues', outputValues',
                      layoutMetrics)
  /\ UNCHANGED <<selectedExperiment, clockTick, clockRunning, pc,
                 layoutMetrics>>

\* onClick of the clock button, rendered only when hasClock
ToggleClock ==
  /\ pc = "idle"
  /\ HasClock(selectedExperiment)
  /\ clockRunning' = ~clockRunning
  /\ wireCalls' =
       RenderWires(selectedExperiment, inputValues, outputValues,
                   layoutMetrics)
  /\ UNCHANGED <<selectedExperiment, inputValues, outputValues, clockTick,
                 circuitStateRef, previousClockRef, pc,
                 evalEdge, evalTick, evalPrevTick, evalCause, layoutMetrics>>

\* the interval callback setClockTick(prev => prev + 1), then its commit;
\* the interval exists while hasClock && clockRunning
Tick ==
  /\ pc = "idle"
  /\ HasClock(selectedExperiment) /\ clockRunning
  /\ clockTick < MaxTick
  /\ clockTick' = clockTick + 1
  /\ EvaluationEffect(selectedExperiment, inputValues, clockTick',
                      circuitStateRef, previousClockRef, "tick")
  /\ wireCalls' =
       RenderWires(selectedExperiment, inputValues, outputValues,
                   layoutMetrics)
       \o RenderWires(selectedExperiment, inputValues, outputValues',
                      layoutMetrics)
  /\ UNCHANGED <<selectedExperiment, inputValues, clockRunning, pc,
                 layoutMetrics>>

\* the animation-frame callback requested by the layout effect of the last
\* commit (or by the resize handler): setLayoutMetrics with the positions
\* of the rendered experiment's inputs and outputs, then the render it
\* causes
UpdateLayout ==
  /\ pc = "idle"
  /\ layoutMetrics' = MeasuredLayout(selectedExperiment, BoardGeometry)
  /\ wireCalls' =
       RenderWires(selectedExperiment, inputValues, outputValues,
                   layoutMetrics')
  /\ UNCHANGED <<selectedExperiment, inputValues, outputValues, clockTick,
                 clockRunning, circuitStateRef, previousClockRef, pc,
                 evalEdge, evalTick, evalPrevTick, evalCause>>

Init ==
  /\ selectedExperiment = ExperimentList[1]
  /\ inputValues = <<>> /\ outputValues = <<>>
  /\ clockTick = 0 /\ clockRunning = FALSE
  /\ circuitStateRef = EmptyState /\ previousClockRef = 0
  /\ pc = "mount"
  /\ evalEdge = FALSE /\ evalTick = 0 /\ evalPrevTick = 0
  /\ evalCause = "none"
  /\ layoutMetrics = NoLayout /\ wireCalls = <<>>
  /\ LogicAtRest /\ RunAtRest /\ TraceAtRest /\ WireAtRest /\ PinAtRest /\ MqttAtRest

Next ==
  \/ Mount /\ UNCHANGED <<logicVars, runVars, traceVars,
                 wireVars, pinVars, mqttVars>>
  \/ Rerender /\ UNCHANGED <<logicVars, runVars, traceVars,
                 wireVars, pinVars, mqttVars>>
  \/ \E exp \in ExperimentIds :
       SelectExperiment(exp) /\ UNCHANGED <<logicVars, runVars, traceVars,
                 wireVars, pinVars, mqttVars>>
  \/ \E id \in InputIds(selectedExperiment) :
       ToggleInput(id) /\ UNCHANGED <<logicVars, runVars, traceVars,
                 wireVars, pinVars, mqttVars>>
  \/ ToggleClock /\ UNCHANGED <<logicVars, runVars, traceVars,
                 wireVars, pinVars, mqttVars>>
  \/ Tick /\ UNCHANGED <<logicVars, runVars, traceVars,
                 wireVars, pinVars, mqttVars>>
  \/ UpdateLayout /\ UNCHANGED <<logicVars, runVars, traceVars,
                 wireVars, pinVars, mqttVars>>

Spec == Init /\ [][Next]_vars

---------------------------------------------------------------------------
(* Direct calls of logic(): argument domains                               *)

\* the in-range held states of an experiment
StateDomain(e) ==
  CASE e = "sr-latch" ->
         [ {"Q1", "Q2", "Q3"} -> {"true", "false"} ]
    [] e = "counter" ->
         { [count |-> c] : c \in 0..(CounterModulus - 1) }
    [] e = "shift-register" ->
         { [register |-> r] : r \in 0..RegisterMask }
    [] e = "sequence-detector" ->
         { [history |-> h] :
             h \in UNION { [1..n -> {0, 1}] : n \in 0..HistoryLimit } }
    [] e = "fsm-accumulator" ->
         { [accumulator |-> a] : a \in 0..(AccumulatorModulus - 1) }
    [] e = "traffic-light" ->
         { [state |-> s, subCycle |-> c] :
             s \in 0..(PhaseCount - 1), c \in 0..(SubCycleLength - 1) }
    [] OTHER -> { EmptyState }

\* state values of every shape, handed to experiments that declare none
SampleStates ==
  { EmptyState } \cup { InitialState(e) : e \in ExperimentIds }
  \cup { [count |-> 9], [history |-> <<1, 0, 1>>],
         [Q1 |-> "true", Q2 |-> "false", Q3 |-> "true"],
         [state |-> 2, subCycle |-> 1] }

ArgStates(e) ==
  IF StateDomain(e) = { EmptyState }
    THEN SampleStates
    ELSE StateDomain(e) \cup { EmptyState }

\* every declared input present with a boolean value
FullInputs(e) == [ InputIds(e) -> {"true", "false"} ]

\* input vectors in which any of the declared ids may be missing
PartialInputs(e) ==
  UNION { [ S -> {"true", "false"} ] : S \in SUBSET InputIds(e) }

Returned(result) ==
  [ outputs |-> result.outputs, newState |-> result.newState ]

MaxOther == 1

---------------------------------------------------------------------------
(* Specification LogicSpec: one experiment, one argument triple, the call  *)
(* logic(inputs, state, clockEdge), then either the same call again on the *)
(* same state object (after other calls on it) or a call with the same     *)
(* inputs and a different state.                                           *)

LogicInit ==
  /\ lExp \in ExperimentIds
  /\ lInputs \in PartialInputs(lExp)
  /\ lEdge \in BOOLEAN
  /\ lArg \in ArgStates(lExp)
  /\ lStateObj = lArg
  /\ lRes = NoResult /\ lRes2 = NoResult
  /\ lAltState = EmptyState /\ lAltRes = NoResult
  /\ lOther = 0 /\ lpc = "start"
  /\ DriverAtRest /\ RunAtRest /\ TraceAtRest /\ WireAtRest /\ PinAtRest /\ MqttAtRest

CallLogic ==
  /\ lpc = "start"
  /\ LET result == Logic(lExp, lInputs, lStateObj, lEdge)
     IN /\ lRes' = Returned(result)
        /\ lStateObj' = result.stateAfter
  /\ lpc' = "once"
  /\ UNCHANGED <<lExp, lInputs, lEdge, lArg, lRes2, lAltState, lAltRes, lOther>>

\* another call on the same state object, with other inputs or edge
CallOther ==
  /\ lpc = "once"
  /\ lOther < MaxOther
  /\ \E in \in PartialInputs(lExp), edge \in BOOLEAN :
       /\ <<in, edge>> # <<lInputs, lEdge>>
       /\ lStateObj' = Logic(lExp, in, lStateObj, edge).stateAfter
  /\ lOther' = lOther + 1
  /\ UNCHANGED <<lExp, lInputs, lEdge, lArg, lRes, lRes2, lAltState, lAltRes, lpc>>

\* the first call repeated: same inputs, same state object, same edge
CallAgain ==
  /\ lpc = "once"
  /\ LET result == Logic(lExp, lInputs, lStateObj, lEdge)
     IN /\ lRes2' = Returned(result)
        /\ lStateObj' = result.stateAfter
  /\ lpc' = "twice"
  /\ UNCHANGED <<lExp, lInputs, lEdge, lArg, lRes, lAltState, lAltRes, lOther>>

\* an experiment without hasClock called with the same inputs and another
\* held state
CallAltState ==
  /\ lpc = "once"
  /\ ~HasClock(lExp)
  /\ \E s \in ArgStates(lExp) \ { lArg } :
       /\ lAltState' = s
       /\ lAltRes' = Returned(Logic(lExp, lInputs, s, lEdge))
  /\ lpc' = "alt"
  /\ UNCHANGED <<lExp, lInputs, lEdge, lArg, lStateObj, lRes, lRes2, lOther>>

LogicNext ==
  \/ CallLogic /\ UNCHANGED <<driverVars, runVars, traceVars,
                 wireVars, pinVars, mqttVars>>
  \/ CallOther /\ UNCHANGED <<driverVars, runVars, traceVars,
                 wireVars, pinVars, mqttVars>>
  \/ CallAgain /\ UNCHANGED <<driverVars, runVars, traceVars,
                 wireVars, pinVars, mqttVars>>
  \/ CallAltState /\ UNCHANGED <<driverVars, runVars, traceVars,
                 wireVars, pinVars, mqttVars>>

LogicSpec == LogicInit /\ [][LogicNext]_vars

---------------------------------------------------------------------------
(* Specification RunSpec: consecutive calls of one experiment's logic(),   *)
(* each handed the newState of the call before, from any in-range state.   *)

RunInit ==
  /\ rExp \in ExperimentIds
  /\ rState \in StateDomain(rExp)
  /\ rOut = <<>>
  /\ rLast = NoCall /\ rPrev = NoCall
  /\ rRun = 0 /\ rRunBase = rState
  /\ DriverAtRest /\ LogicAtRest /\ TraceAtRest /\ WireAtRest /\ PinAtRest /\ MqttAtRest

\* a run of identical calls is counted up to CounterModulus calls; the
\* call after that starts a new run
RunCall ==
  \E in \in FullInputs(rExp), edge \in BOOLEAN :
    LET result == Logic(rExp, in, rState, edge)
        continues == /\ rLast # NoCall
                     /\ rLast.inputs = in /\ rLast.edge = edge
                     /\ rRun < CounterModulus
    IN /\ rState' = result.newState
       /\ rOut' = result.outputs
       /\ rPrev' = rLast
       /\ rLast' = [inputs |-> in, edge |-> edge, before |-> rState]
       /\ rRun' = IF continues THEN rRun + 1 ELSE 1
       /\ rRunBase' = IF continues THEN rRunBase ELSE rState
       /\ UNCHANGED rExp

RunNext == RunCall /\ UNCHANGED <<driverVars, logicVars, traceVars,
                 wireVars, pinVars, mqttVars>>

RunSpec == RunInit /\ [][RunNext]_vars

---------------------------------------------------------------------------
(* Specification TraceSpec: one clocked experiment, started from its       *)
(* initialState(), then any sequence of logic() calls with full input      *)
(* vectors, with or without a clock edge, each handed the newState of the  *)
(* call before.  Beside the program's values the harness records what was  *)
(* fed in: the bits sampled on clock edges, the number of clock edges, and *)
(* the state at which a stretch of calls with Override asserted began.     *)

RegisterWindow == 9

DetectorWindow == 5

MaxEdges == 13

ClockedExperiments == { e \in ExperimentIds : HasClock(e) }

\* how many sampled bits are remembered, most recent first
SampleWindow(e) ==
  CASE e = "shift-register"    -> RegisterWindow
    [] e = "sequence-detector" -> DetectorWindow
    [] OTHER                   -> 0

\* the bit an experiment samples on a clock edge: inputs.Data ? 1 : 0 and
\* inputs.Bit ? 1 : 0
SampledBit(e, inputs) ==
  CASE e = "shift-register"    -> IF Truthy(Get(inputs, "Data")) THEN 1 ELSE 0
    [] e = "sequence-detector" -> IF Truthy(Get(inputs, "Bit")) THEN 1 ELSE 0
    [] OTHER                   -> 0

Keep(samples, window) ==
  IF Len(samples) > window THEN SubSeq(samples, 1, window) ELSE samples

TraceInit ==
  /\ tExp \in ClockedExperiments
  /\ tState = InitialState(tExp)
  /\ tOut = <<>>
  /\ tLast = NoCall
  /\ tSamples = <<>> /\ tEdges = 0
  /\ tOverrideSeen = FALSE /\ tHeld = NoHold /\ tReleasedFrom = NoHold
  /\ DriverAtRest /\ LogicAtRest /\ RunAtRest /\ WireAtRest /\ PinAtRest /\ MqttAtRest

\* logic(in, state, edge) on the state the previous call returned.  The
\* samples are forgotten by a call with Reset asserted and the edge count
\* stops at MaxEdges.
TraceCall(in, edge) ==
  LET result == Logic(tExp, in, tState, edge)
      reset == Truthy(Get(in, "Reset"))
      override == Truthy(Get(in, "Override"))
  IN /\ tState' = result.newState
     /\ tOut' = result.outputs
     /\ tLast' = [inputs |-> in, edge |-> edge, before |-> tState,
                  outBefore |-> tOut]
     /\ tSamples' =
          IF reset THEN <<>>
          ELSE IF edge
            THEN Keep(<<SampledBit(tExp, in)>> \o tSamples, SampleWindow(tExp))
          ELSE tSamples
     /\ tEdges' = IF edge /\ tEdges < MaxEdges THEN tEdges + 1 ELSE tEdges
     /\ tOverrideSeen' = (tOverrideSeen \/ override)
     /\ tHeld' = IF ~override THEN NoHold
                 ELSE IF tHeld = NoHold THEN tState
                 ELSE tHeld
     /\ tReleasedFrom' = IF override THEN NoHold ELSE tHeld
     /\ UNCHANGED tExp

TraceNext ==
  \E in \in FullInputs(tExp), edge \in BOOLEAN :
    TraceCall(in, edge) /\ UNCHANGED <<driverVars, logicVars, runVars,
                 wireVars, pinVars, mqttVars>>

TraceSpec == TraceInit /\ [][TraceNext]_vars

\* an evaluation caused by a timer firing: the interval of the running
\* clock keeps firing, so such evaluations keep happening
ClockEdgeCall ==
  \E in \in FullInputs(tExp) :
    TraceCall(in, TRUE) /\ UNCHANGED <<driverVars, logicVars, runVars,
                 wireVars, pinVars, mqttVars>>

\* the traffic-light controller from (state 0, subCycle 0)
TrafficCycleInit == TraceInit /\ tExp = "traffic-light"

TrafficCycleSpec ==
  TrafficCycleInit /\ [][TraceNext]_vars /\ WF_vars(ClockEdgeCall)

---------------------------------------------------------------------------
(* Specification WireSpec: one getWires call of one experiment, on full    *)
(* boolean input and output vectors and a layout measured for that         *)
(* experiment.  The layout carries no pinPositions, or the pin positions   *)
(* an ICChip computes for the experiment's package (calculatePinPositions, *)
(* then a Map keyed by pin number), or that map with one pin left out.     *)

FullOutputs(e) ==
  [ { OutputList(e)[i] : i \in 1..Len(OutputList(e)) } -> {"true", "false"} ]

\* boards on which getWires is exercised
BoardGeometries ==
  { BoardGeometry,
    [ inputRight |-> 60, outputLeft |-> 421,
      rowTop |-> 0, rowPitch |-> 33, rowHeight |-> 20,
      chipLeft |-> 150, chipTop |-> 10, chipWidth |-> 192, chipHeight |-> 128 ] }

\* the Map an ICChip of package `part` reports for a chip box of geometry g
ChipPinPositions(part, g) ==
  PositionMap(CalculatePinPositions(IC_LIBRARY[part], Num(g.chipLeft),
                                    Num(g.chipTop), Num(g.chipWidth),
                                    Num(g.chipHeight)))

Without(map, pinNum) == [ n \in DOMAIN map \ {pinNum} |-> map[n] ]

WithPins(layout, map) ==
  [ f \in DOMAIN layout \cup {"pinPositions"} |->
      IF f = "pinPositions" THEN map ELSE layout[f] ]

Layouts(e) ==
  UNION { LET measured == MeasuredLayout(e, g)
              pins == ChipPinPositions(IcChip(e), g)
          IN { measured, WithPins(measured, pins) }
               \cup { WithPins(measured, Without(pins, n)) : n \in DOMAIN pins }
        : g \in BoardGeometries }

WireInit ==
  /\ wExp \in ExperimentIds
  /\ wInputs \in FullInputs(wExp)
  /\ wOutputs \in FullOutputs(wExp)
  /\ wLayout \in Layouts(wExp)
  /\ wWires = NoWires
  /\ wpc = "start"
  /\ DriverAtRest /\ LogicAtRest /\ RunAtRest /\ TraceAtRest /\ PinAtRest /\ MqttAtRest

GetWiresCall ==
  /\ wpc = "start"
  /\ wWires' = GetWires(wExp, wInputs, wOutputs, wLayout)
  /\ wpc' = "called"
  /\ UNCHANGED <<wExp, wInputs, wOutputs, wLayout>>

WireNext ==
  GetWiresCall /\ UNCHANGED <<driverVars, logicVars, runVars, traceVars,
                              pinVars, mqttVars>>

WireSpec == WireInit /\ [][WireNext]_vars

---------------------------------------------------------------------------
(* Specification PinSpec: one package of IC_LIBRARY and one chip box, then *)
(* calculatePinPositions(getICPackage(part), x, y, width, height).         *)

ChipBoxes ==
  { [x |-> x, y |-> y, width |-> w, height |-> h] :
      x \in {0, 136}, y \in {0, 24}, w \in {128, 192}, h \in {128, 160, 75} }

PinInit ==
  /\ pPart \in PartNumbers
  /\ pBox \in ChipBoxes
  /\ pPositions = NoPositions
  /\ ppc = "start"
  /\ DriverAtRest /\ LogicAtRest /\ RunAtRest /\ TraceAtRest /\ WireAtRest /\ MqttAtRest

CalculateCall ==
  /\ ppc = "start"
  /\ pPositions' =
       CalculatePinPositions(IC_LIBRARY[pPart], Num(pBox.x), Num(pBox.y),
                             Num(pBox.width), Num(pBox.height))
  /\ ppc' = "called"
  /\ UNCHANGED <<pPart, pBox>>

PinNext ==
  CalculateCall /\ UNCHANGED <<driverVars, logicVars, runVars, traceVars,
                               wireVars, mqttVars>>

PinSpec == PinInit /\ [][PinNext]_vars

---------------------------------------------------------------------------
(* The MQTT bridge: MQTTService, the mqtt.js clients it creates, the       *)
(* broker's deliveries to those clients, and the useMQTT hook.             *)
(*                                                                         *)
(* A client is a number, in creation order; cState and cSubs are indexed   *)
(* by it.  A client that connect()/disconnect() ended with end(true)       *)
(* while its stream was open is "ended" until mqtt.js emits its 'close'.   *)
(* A handler is the number of a messageHandler closure of the hook, in     *)
(* creation order; hHandlers is indexed by it.  A message carries the      *)
(* outcome of JSON.parse on its payload: "invalid" (parse throws), "null"  *)
(* (the JSON text null) or "object" with the fields value and source.      *)
(* mLast records what the step just taken did: the lifecycle event a       *)
(* client handler ran for, the publish / subscribe call made, or the       *)
(* callbacks a delivered message invoked.  notifyConnectionState reaches   *)
(* the hook's handleConnectionChange while the hook is mounted.            *)

MaxClients == 2
MaxHandlers == 2
MaxInFlight == 1

\* private client: MqttClient | null = null
NoClient == 0

\* unsubscribe(topic, callback?) called without a callback
NoCallback == 0

\* `${prefix}/${experimentId}/${type}/${id}`, prefix 'circuitsim'
BuildTopic(experimentId, type, id) ==
  << "circuitsim", experimentId, type, id >>

\* !this.client || !this.connected
NotReady(client, connected) == client = NoClient \/ ~connected

ServiceSubscribeUnguarded(client, connected, callbacks, topic, callback) ==
  IF topic \in DOMAIN callbacks
  THEN [callbacks |-> [callbacks EXCEPT ![topic] = @ \cup {callback}],
        brokerSubscribe |-> FALSE]
  ELSE [callbacks |-> [t \in DOMAIN callbacks \cup {topic} |->
                         IF t = topic THEN {callback} ELSE callbacks[t]],
        brokerSubscribe |-> ~NotReady(client, connected)]

\* MQTTService.subscribe: the new messageCallbacks, and whether
\* client.subscribe(topic) was sent
ServiceSubscribe(client, connected, callbacks, topic, callback) ==
  IF NotReady(client, connected)
  THEN [callbacks |-> callbacks, brokerSubscribe |-> FALSE]
  ELSE IF topic \in DOMAIN callbacks
       THEN [callbacks |-> [callbacks EXCEPT ![topic] = @ \cup {callback}],
             brokerSubscribe |-> FALSE]
       ELSE [callbacks |-> [t \in DOMAIN callbacks \cup {topic} |->
                              IF t = topic THEN {callback} ELSE callbacks[t]],
             brokerSubscribe |-> TRUE]

ServiceUnsubscribeBrokerOnly(client, connected, callbacks, topic, callback) ==
  [callbacks |-> callbacks,
   brokerUnsubscribe |-> topic \in DOMAIN callbacks
                            /\ ~NotReady(client, connected)]

\* MQTTService.unsubscribe: the new messageCallbacks, and whether
\* client.unsubscribe(topic) was sent
ServiceUnsubscribe(client, connected, callbacks, topic, callback) ==
  IF callback # NoCallback
  THEN IF topic \in DOMAIN callbacks
       THEN IF callbacks[topic] \ {callback} = {}
            THEN [callbacks |-> [t \in DOMAIN callbacks \ {topic} |->
                                   callbacks[t]],
                  brokerUnsubscribe |-> ~NotReady(client, connected)]
            ELSE [callbacks |-> [callbacks EXCEPT ![topic] = @ \ {callback}],
                  brokerUnsubscribe |-> FALSE]
       ELSE [callbacks |-> callbacks, brokerUnsubscribe |-> FALSE]
  ELSE [callbacks |-> [t \in DOMAIN callbacks \ {topic} |-> callbacks[t]],
        brokerUnsubscribe |-> ~NotReady(client, connected)]

\* MQTTService.publish: the messages handed to client.publish
ServicePublish(client, connected, topic, value, source) ==
  IF NotReady(client, connected)
  THEN {}
  ELSE { [topic |-> topic, json |-> "object", value |-> value,
          source |-> source] }

\* MQTTService.disconnect
ServiceDisconnect(client, connected, states) ==
  IF client # NoClient
  THEN [client |-> NoClient, connected |-> FALSE,
        states |-> [states EXCEPT ![client] =
                      IF @ \in {"connecting", "connected"}
                      THEN "ended" ELSE "gone"],
        notified |-> TRUE]
  ELSE [client |-> client, connected |-> connected, states |-> states,
        notified |-> FALSE]

\* MQTTService.handleMessage: the callbacks it calls
HandleMessage(callbacks, topic) ==
  IF topic \in DOMAIN callbacks THEN callbacks[topic] ELSE {}

InputHandlerForwardsAny(message) == TRUE

\* subscribeToInput's messageHandler: whether it calls the callback
InputHandlerForwards(message) == message.source = "hardware"

\* subscribeToOutput's messageHandler: whether it calls the callback
OutputHandlerForwards(message) == TRUE

\* the client's 'message' handler: the callback invocations it leads to.
\* A payload that does not parse throws before handleMessage; a parsed
\* null makes the first handler throw on message.source / message.value;
\* both end in the catch.
OnMessage(callbacks, handlers, m, active) ==
  IF m.json # "object"
  THEN {}
  ELSE { [handler |-> h, value |-> m.value, source |-> m.source,
          origin |-> m.origin, active |-> active] :
         h \in { x \in HandleMessage(callbacks, m.topic) :
                   IF handlers[x].type = "input"
                   THEN InputHandlerForwards(m)
                   ELSE OutputHandlerForwards(m) } }

\* the callback handed to subscribeToInput: an ordinary input-vector write
ApplyHardwareUpdate(inputs, id, value) ==
  [k \in DOMAIN inputs \cup {id} |-> IF k = id THEN value ELSE inputs[k]]

\* the service and hook state a hook call reads and writes
World ==
  [client |-> mClient, connected |-> mConnected, callbacks |-> mCallbacks,
   subs |-> cSubs, handlers |-> hHandlers, ref |-> hSubs,
   outstanding |-> hOutstanding]

Commit(w) ==
  /\ mCallbacks' = w.callbacks /\ cSubs' = w.subs
  /\ hHandlers' = w.handlers /\ hSubs' = w.ref
  /\ hOutstanding' = w.outstanding

\* subscribeToInput / subscribeToOutput
HookSubscribe(w, experimentId, type, id) ==
  LET topic == BuildTopic(experimentId, type, id)
      messageHandler == Len(w.handlers) + 1
      r == ServiceSubscribe(w.client, w.connected, w.callbacks, topic,
                            messageHandler)
  IN [w EXCEPT
        !.handlers = Append(@, [type |-> type, experiment |-> experimentId,
                                id |-> id,
                                ready |-> ~NotReady(w.client, w.connected)]),
        !.ref = [t \in DOMAIN w.ref \cup {topic} |->
                   IF t = topic THEN messageHandler ELSE w.ref[t]],
        !.callbacks = r.callbacks,
        !.subs = IF r.brokerSubscribe
                 THEN [w.subs EXCEPT ![w.client] = @ \cup {topic}]
                 ELSE w.subs,
        !.outstanding = @ \cup {[topic |-> topic, handler |-> messageHandler]}]

\* the function subscribeToInput / subscribeToOutput returned for u.topic
ReturnedUnsubscribe(w, u) ==
  IF u.topic \in DOMAIN w.ref
  THEN LET r == ServiceUnsubscribe(w.client, w.connected, w.callbacks,
                                   u.topic, w.ref[u.topic])
       IN [w EXCEPT
             !.callbacks = r.callbacks,
             !.subs = IF r.brokerUnsubscribe
                      THEN [w.subs EXCEPT ![w.client] = @ \ {u.topic}]
                      ELSE w.subs,
             !.ref = [t \in DOMAIN w.ref \ {u.topic} |-> w.ref[t]],
             !.outstanding = @ \ {u}]
  ELSE [w EXCEPT !.outstanding = @ \ {u}]

\* the unmount cleanup: subscriptionsRef.current.forEach(unsubscribe),
\* then clear()
RECURSIVE CleanupAll(_, _)
CleanupAll(w, topics) ==
  IF topics = {}
  THEN [w EXCEPT !.ref = << >>]
  ELSE LET topic == CHOOSE t \in topics : TRUE
           r == ServiceUnsubscribe(w.client, w.connected, w.callbacks,
                                   topic, w.ref[topic])
       IN CleanupAll([w EXCEPT
                        !.callbacks = r.callbacks,
                        !.subs = IF r.brokerUnsubscribe
                                 THEN [w.subs EXCEPT ![w.client] = @ \ {topic}]
                                 ELSE w.subs],
                     topics \ {topic})

Connect ==
  /\ mLast' = [op |-> "none"]
  /\ Len(cState) < MaxClients
  /\ LET d == ServiceDisconnect(mClient, mConnected, cState)
     IN /\ cState' = Append(d.states, "connecting")
        /\ cSubs' = Append(cSubs, {})
        /\ mClient' = Len(cState) + 1
        /\ mConnected' = d.connected
        /\ hIsConnected' = IF d.notified /\ hMounted THEN FALSE ELSE hIsConnected
  /\ inflight' = { m \in inflight : m.to # mClient }
  /\ UNCHANGED <<mCallbacks, hMounted, hExp, hHandlers, hSubs, hOutstanding, bInputs,
                 bSynced>>

Disconnect ==
  /\ mLast' = [op |-> "none"]
  /\ mClient # NoClient
  /\ LET d == ServiceDisconnect(mClient, mConnected, cState)
     IN /\ cState' = d.states
        /\ mClient' = d.client
        /\ mConnected' = d.connected
        /\ hIsConnected' = IF hMounted THEN FALSE ELSE hIsConnected
  /\ inflight' = { m \in inflight : m.to # mClient }
  /\ UNCHANGED <<mCallbacks, cSubs, hMounted, hExp, hHandlers, hSubs, hOutstanding,
                 bInputs, bSynced>>

\* client.on('connect'): the first connection, or mqtt.js's reconnect,
\* which subscribes the client's topics again
OnConnect(c) ==
  /\ cState[c] \in {"connecting", "closed"}
  /\ cState' = [cState EXCEPT ![c] = "connected"]
  /\ mConnected' = TRUE
  /\ hIsConnected' = IF hMounted THEN TRUE ELSE hIsConnected
  /\ mLast' = [op |-> "connect", superseded |-> c # mClient,
               changed |-> mConnected # TRUE, notified |-> hMounted]
  /\ UNCHANGED <<mClient, mCallbacks, cSubs, inflight, hMounted, hExp, hHandlers, hSubs, hOutstanding,
                 bInputs, bSynced>>

\* client.on('close')
OnClose(c) ==
  /\ cState[c] \in {"connecting", "connected", "ended"}
  /\ cState' = [cState EXCEPT ![c] = IF @ = "ended" THEN "gone" ELSE "closed"]
  /\ mConnected' = FALSE
  /\ hIsConnected' = IF hMounted THEN FALSE ELSE hIsConnected
  /\ mLast' = [op |-> "close", superseded |-> c # mClient,
               changed |-> mConnected # FALSE, notified |-> hMounted]
  /\ inflight' = { m \in inflight : m.to # c }
  /\ UNCHANGED <<mClient, mCallbacks, cSubs, hMounted, hExp, hHandlers, hSubs, hOutstanding,
                 bInputs, bSynced>>

\* client.on('error')
OnError(c) ==
  /\ cState[c] \in {"connecting", "connected"}
  /\ mConnected' = FALSE
  /\ hIsConnected' = IF hMounted THEN FALSE ELSE hIsConnected
  /\ mLast' = [op |-> "error", superseded |-> c # mClient,
               changed |-> mConnected # FALSE, notified |-> hMounted]
  /\ UNCHANGED <<mClient, mCallbacks, cState, cSubs, inflight, hMounted, hExp, hHandlers, hSubs,
                 hOutstanding, bInputs, bSynced>>

\* what a hardware node puts on a topic: any payload, tagged 'hardware'
\* when it is an object
HardwarePayloads ==
  { [json |-> "invalid", value |-> "undefined", source |-> "undefined"],
    [json |-> "null", value |-> "undefined", source |-> "undefined"] }
  \cup { [json |-> "object", value |-> v, source |-> "hardware"] :
           v \in {"true", "1"} }

\* the broker forwards a hardware publication to a subscribed client
HardwareSend(c, topic, p) ==
  /\ mLast' = [op |-> "none"]
  /\ cState[c] = "connected" /\ topic \in cSubs[c]
  /\ Cardinality(inflight) < MaxInFlight
  /\ inflight' = inflight \cup
       { [to |-> c, topic |-> topic, json |-> p.json, value |-> p.value,
          source |-> p.source, origin |-> "hardware"] }
  /\ UNCHANGED <<mClient, mConnected, mCallbacks, cState, cSubs, hMounted, hIsConnected, hExp,
                 hHandlers, hSubs, hOutstanding, bInputs, bSynced>>

\* client.on('message')
Deliver(m) ==
  /\ m \in inflight /\ cState[m.to] = "connected"
  /\ inflight' = inflight \ {m}
  /\ mLast' = [op |-> "message", message |-> m,
               invoked |-> OnMessage(mCallbacks, hHandlers, m, hExp)]
  /\ bInputs' = IF \E i \in mLast'.invoked :
                     hHandlers[i.handler].type = "input"
                THEN ApplyHardwareUpdate(bInputs, m.topic[4], m.value)
                ELSE bInputs
  /\ UNCHANGED <<mClient, mConnected, mCallbacks, cState, cSubs, hMounted, hIsConnected, hExp,
                 hHandlers, hSubs, hOutstanding, bSynced>>

\* the broker sends a publication back to every connected client that
\* subscribed its topic
Echo(sent) ==
  { [to |-> c, topic |-> s.topic, json |-> s.json, value |-> s.value,
     source |-> s.source, origin |-> "web"] :
      c \in { x \in 1..Len(cState) :
                cState[x] = "connected" /\ \E s \in sent : s.topic \in cSubs[x] },
      s \in sent }

PublishInput(inputId, value) ==
  /\ hMounted
  /\ inflight' = inflight \cup
       Echo(ServicePublish(mClient, mConnected,
                           BuildTopic(hExp, "input", inputId), value, "web"))
  /\ Cardinality(inflight') <= MaxInFlight
  /\ mLast' = [op |-> "publish", ready |-> ~NotReady(mClient, mConnected)]
  /\ UNCHANGED <<mClient, mConnected, mCallbacks, cState, cSubs,
                 hMounted, hIsConnected, hExp, hHandlers, hSubs,
                 hOutstanding, bInputs, bSynced>>

PublishOutput(outputId, value) ==
  /\ hMounted
  /\ inflight' = inflight \cup
       Echo(ServicePublish(mClient, mConnected,
                           BuildTopic(hExp, "output", outputId), value, "web"))
  /\ Cardinality(inflight') <= MaxInFlight
  /\ mLast' = [op |-> "publish", ready |-> ~NotReady(mClient, mConnected)]
  /\ UNCHANGED <<mClient, mConnected, mCallbacks, cState, cSubs,
                 hMounted, hIsConnected, hExp, hHandlers, hSubs,
                 hOutstanding, bInputs, bSynced>>

SubscribeToInput(inputId) ==
  /\ hMounted /\ Len(hHandlers) < MaxHandlers
  /\ Commit(HookSubscribe(World, hExp, "input", inputId))
  /\ mLast' = [op |-> "subscribe", ready |-> ~NotReady(mClient, mConnected)]
  /\ UNCHANGED <<mClient, mConnected, cState, inflight, hMounted, hIsConnected, hExp, bInputs, bSynced>>

SubscribeToOutput(outputId) ==
  /\ hMounted /\ Len(hHandlers) < MaxHandlers
  /\ Commit(HookSubscribe(World, hExp, "output", outputId))
  /\ mLast' = [op |-> "subscribe", ready |-> ~NotReady(mClient, mConnected)]
  /\ UNCHANGED <<mClient, mConnected, cState, inflight, hMounted, hIsConnected, hExp, bInputs, bSynced>>

CallUnsubscribe(u) ==
  /\ u \in hOutstanding
  /\ Commit(ReturnedUnsubscribe(World, u))
  /\ mLast' = [op |-> "none"]
  /\ UNCHANGED <<mClient, mConnected, cState, inflight, hMounted, hIsConnected, hExp, bInputs, bSynced>>

\* the cleanups of the hook's two effects
Unmount ==
  /\ hMounted
  /\ hMounted' = FALSE
  /\ Commit(CleanupAll(World, DOMAIN hSubs))
  /\ mLast' = [op |-> "none"]
  /\ UNCHANGED <<mClient, mConnected, cState, inflight, hIsConnected, hExp, bInputs, bSynced>>

\* the experiments the bridge is exercised with
MqttExperiments == { "shift-register", "traffic-light" }

MqttInit ==
  /\ mClient = NoClient /\ mConnected = FALSE /\ mCallbacks = << >>
  /\ cState = << >> /\ cSubs = << >> /\ inflight = {}
  /\ mLast = [op |-> "none"]
  /\ hMounted = TRUE /\ hIsConnected = FALSE
  /\ hExp \in MqttExperiments
  /\ hHandlers = << >> /\ hSubs = << >> /\ hOutstanding = {}
  /\ bInputs = InitialInputs(hExp) /\ bSynced = FALSE
  /\ DriverAtRest /\ LogicAtRest /\ RunAtRest /\ TraceAtRest
  /\ WireAtRest /\ PinAtRest

MqttNext ==
  \/ Connect /\ UNCHANGED <<driverVars, logicVars, runVars, traceVars,
                            wireVars, pinVars>>
  \/ Disconnect /\ UNCHANGED <<driverVars, logicVars, runVars, traceVars,
                               wireVars, pinVars>>
  \/ \E c \in 1..Len(cState) :
       OnConnect(c) /\ UNCHANGED <<driverVars, logicVars, runVars, traceVars,
                                   wireVars, pinVars>>
  \/ \E c \in 1..Len(cState) :
       OnClose(c) /\ UNCHANGED <<driverVars, logicVars, runVars, traceVars,
                                 wireVars, pinVars>>
  \/ \E c \in 1..Len(cState) :
       OnError(c) /\ UNCHANGED <<driverVars, logicVars, runVars, traceVars,
                                 wireVars, pinVars>>
  \/ \E c \in 1..Len(cState) :
     \E topic \in cSubs[c], p \in HardwarePayloads :
       HardwareSend(c, topic, p)
         /\ UNCHANGED <<driverVars, logicVars, runVars, traceVars,
                        wireVars, pinVars>>
  \/ \E m \in inflight :
       Deliver(m) /\ UNCHANGED <<driverVars, logicVars, runVars, traceVars,
                                 wireVars, pinVars>>
  \/ \E id \in InputIds(hExp), value \in {"true"} :
       PublishInput(id, value)
         /\ UNCHANGED <<driverVars, logicVars, runVars, traceVars,
                        wireVars, pinVars>>
  \/ \E id \in {OutputList(hExp)[1]}, value \in {"true"} :
       PublishOutput(id, value)
         /\ UNCHANGED <<driverVars, logicVars, runVars, traceVars,
                        wireVars, pinVars>>
  \/ \E id \in InputIds(hExp) :
       SubscribeToInput(id)
         /\ UNCHANGED <<driverVars, logicVars, runVars, traceVars,
                        wireVars, pinVars>>
  \/ \E id \in {OutputList(hExp)[1]} :
       SubscribeToOutput(id)
         /\ UNCHANGED <<driverVars, logicVars, runVars, traceVars,
                        wireVars, pinVars>>
  \/ \E u \in hOutstanding :
       CallUnsubscribe(u)
         /\ UNCHANGED <<driverVars, logicVars, runVars, traceVars,
                        wireVars, pinVars>>
  \/ Unmount /\ UNCHANGED <<driverVars, logicVars, runVars, traceVars,
                            wireVars, pinVars>>

MqttSpec == MqttInit /\ [][MqttNext]_vars

---------------------------------------------------------------------------
(* Specification BridgeSpec: the hook driven by the component that owns    *)
(* it.  That component is not part of the sources; it is modelled from     *)
(* the bridge contract: hardware-tagged messages on the active             *)
(* experiment's input topics are written to the input vector, and a        *)
(* switch of the active experiment cancels the previous experiment's       *)
(* subscriptions.  Its subscribing effect depends on the experiment and    *)
(* on isConnected: the cleanup calls every function subscribeToInput       *)
(* returned, then, while connected, each declared input is subscribed.     *)
(* The switch is a click, so render, cleanup and effect run in one task.   *)

RECURSIVE UnsubscribeAll(_, _)
UnsubscribeAll(w, us) ==
  IF us = {}
  THEN w
  ELSE LET u == CHOOSE x \in us : TRUE
       IN UnsubscribeAll(ReturnedUnsubscribe(w, u), us \ {u})

RECURSIVE SubscribeInputs(_, _, _)
SubscribeInputs(w, e, i) ==
  IF i > Len(InputList(e))
  THEN w
  ELSE SubscribeInputs(HookSubscribe(w, e, "input", InputList(e)[i]), e, i + 1)

BridgeEffect(w, e, isConnected) ==
  IF isConnected
  THEN SubscribeInputs(UnsubscribeAll(w, w.outstanding), e, 1)
  ELSE UnsubscribeAll(w, w.outstanding)

SwitchExperiment(exp) ==
  /\ hMounted /\ exp # hExp
  /\ hIsConnected => Len(hHandlers) + Len(InputList(exp)) <= MaxHandlers
  /\ hExp' = exp
  /\ bInputs' = InitialInputs(exp)
  /\ Commit(BridgeEffect(World, exp, hIsConnected))
  /\ bSynced' = hIsConnected
  /\ mLast' = [op |-> "none"]
  /\ UNCHANGED <<mClient, mConnected, cState, inflight, hMounted,
                 hIsConnected>>

\* the effect runs again after isConnected changed
BridgeSync ==
  /\ hMounted /\ bSynced # hIsConnected
  /\ hIsConnected => Len(hHandlers) + Len(InputList(hExp)) <= MaxHandlers
  /\ Commit(BridgeEffect(World, hExp, hIsConnected))
  /\ bSynced' = hIsConnected
  /\ mLast' = [op |-> "none"]
  /\ UNCHANGED <<mClient, mConnected, cState, inflight, hMounted,
                 hIsConnected, hExp, bInputs>>

BridgeNext ==
  \/ Connect /\ UNCHANGED <<driverVars, logicVars, runVars, traceVars,
                            wireVars, pinVars>>
  \/ Disconnect /\ UNCHANGED <<driverVars, logicVars, runVars, traceVars,
                               wireVars, pinVars>>
  \/ \E c \in 1..Len(cState) :
       OnConnect(c) /\ UNCHANGED <<driverVars, logicVars, runVars, traceVars,
                                   wireVars, pinVars>>
  \/ \E c \in 1..Len(cState) :
       OnClose(c) /\ UNCHANGED <<driverVars, logicVars, runVars, traceVars,
                                 wireVars, pinVars>>
  \/ \E c \in 1..Len(cState) :
       OnError(c) /\ UNCHANGED <<driverVars, logicVars, runVars, traceVars,
                                 wireVars, pinVars>>
  \/ \E c \in 1..Len(cState) :
     \E topic \in cSubs[c], p \in HardwarePayloads :
       HardwareSend(c, topic, p)
         /\ UNCHANGED <<driverVars, logicVars, runVars, traceVars,
                        wireVars, pinVars>>
  \/ \E m \in inflight :
       Deliver(m) /\ UNCHANGED <<driverVars, logicVars, runVars, traceVars,
                                 wireVars, pinVars>>
  \/ \E exp \in MqttExperiments :
       SwitchExperiment(exp)
         /\ UNCHANGED <<driverVars, logicVars, runVars, traceVars,
                        wireVars, pinVars>>
  \/ BridgeSync /\ UNCHANGED <<driverVars, logicVars, runVars, traceVars,
                               wireVars, pinVars>>

BridgeSpec == MqttInit /\ [][BridgeNext]_vars

---------------------------------------------------------------------------
(* Claims about the Simulator component (specification Spec)               *)

\* C1: the first evaluation performed after the active experiment is
\* switched is invoked with clockEdge = false, whatever the previous
\* experiment, tick, clock-running flag and input vector were.
C1_FirstEvaluationAfterSwitchHasNoEdge ==
  evalCause = "switch" => evalEdge = FALSE

\* C2: once a switch is fully processed (the reset and every evaluation it
\* triggers have run, before any further toggle or tick), the live circuit
\* state is the new experiment's initialState() value, the tick and the
\* edge baseline are 0 and the input vector holds the declared initial
\* values.
C2_SwitchReinitialises ==
  (pc = "idle" /\ evalCause = "switch-reset") =>
    /\ circuitStateRef = InitialState(selectedExperiment)
    /\ clockTick = 0
    /\ previousClockRef = 0
    /\ inputValues = InitialInputs(selectedExperiment)

\* C3: in every evaluation, clockEdge is true iff the experiment has a
\* clock and the tick is strictly greater than it was at the previous
\* evaluation; so a toggle-only evaluation has no edge, a tick increment
\* gives an evaluation with an edge, and an experiment without a clock is
\* never evaluated with an edge.
C3_EdgeIffTickIncreased ==
  evalCause # "none" =>
    /\ evalEdge <=> (HasClock(selectedExperiment) /\ evalTick > evalPrevTick)
    /\ evalCause = "toggle" => ~evalEdge
    /\ evalCause = "tick" => evalEdge
    /\ ~HasClock(selectedExperiment) => ~evalEdge

C24_WireCountAndActivity ==
  \A k \in 1..Len(wireCalls) :
    LET call == wireCalls[k]
        ins == InputList(call.experiment)
        outs == OutputList(call.experiment)
    IN /\ Len(call.wires) = Len(ins) + Len(outs)
       /\ \A i \in 1..Len(ins) :
            Truthy(call.wires[i].active) = Truthy(Get(call.inputs, ins[i]))
       /\ \A j \in 1..Len(outs) :
            Truthy(call.wires[Len(ins) + j].active)
              = Truthy(Get(call.outputs, outs[j]))

---------------------------------------------------------------------------
(* Claims about single logic() calls (specification LogicSpec)             *)

LogicCalled == lpc \in {"once", "twice", "alt"}

ResetAsserted == Truthy(Get(lInputs, "Reset"))

\* C4: for each clocked experiment, a call with clockEdge = false returns
\* a newState equal in value to the state passed in, for all input vectors
\* and in-range states, except a call with Reset asserted in
\* sequence-detector or fsm-accumulator.
C4_NoEdgeKeepsState ==
  ( /\ LogicCalled
    /\ lExp \in { "counter", "shift-register", "sequence-detector",
                  "fsm-accumulator", "traffic-light" }
    /\ lArg \in StateDomain(lExp)
    /\ ~lEdge
    /\ ~(lExp \in {"sequence-detector", "fsm-accumulator"} /\ ResetAsserted) )
  => lRes.newState = lArg

\* the counter called between edges with CountUp asserted, count kept
C4_Witness ==
  /\ lpc = "once" /\ lExp = "counter" /\ ~lEdge
  /\ lInputs = [CountUp |-> "true", CountDown |-> "false"]
  /\ lArg = [count |-> 7]
  /\ lRes.newState = [count |-> 7]

\* C6: logic(inputs, state, clockEdge) is deterministic and free of hidden
\* state: a call never changes the state object it was given, and the same
\* call made again on that object, whatever calls came in between, returns
\* the same outputs and newState.
C6_DeterministicNoMutation ==
  /\ LogicCalled => lStateObj = lArg
  /\ lpc = "twice" => lRes2 = lRes

\* the sequence detector sampled a bit on an edge, another call was made on
\* the same state object, and the repeated call detected 101 again
C6_Witness ==
  /\ lpc = "twice" /\ lExp = "sequence-detector" /\ lEdge /\ lOther > 0
  /\ lInputs = [Bit |-> "true", Reset |-> "false"]
  /\ lArg = [history |-> <<1, 1, 0>>]
  /\ lRes2.outputs.Detected = "true"
  /\ lRes2.newState = [history |-> <<1, 0, 1>>]

\* C7: logic-gates, full-adder, multiplexer and priority-encoder return a
\* newState equal to the state passed in, for every input vector, every
\* state and either value of clockEdge.
C7_CombinationalKeepsState ==
  ( /\ LogicCalled
    /\ lExp \in { "logic-gates", "full-adder", "multiplexer",
                  "priority-encoder" } )
  => lRes.newState = lArg

\* the encoder handed a counter-shaped state on a clock edge
C7_Witness ==
  /\ lpc = "once" /\ lExp = "priority-encoder" /\ lEdge
  /\ Truthy(Get(lInputs, "I3"))
  /\ lArg = [count |-> 9]
  /\ lRes.newState = [count |-> 9]

\* C8 as stated: every experiment whose hasClock is false or absent gives
\* the same outputs for the same input vector whatever the held state is.
C8_NoClockMeansCombinational ==
  (lpc = "alt" /\ ~HasClock(lExp)) => lAltRes.outputs = lRes.outputs

\* C8 amended: every experiment whose hasClock is false or absent, other
\* than sr-latch, gives the same outputs for the same input vector
\* whatever the held state is.
C8_NoClockExceptLatchIsCombinational ==
  (lpc = "alt" /\ ~HasClock(lExp) /\ lExp # "sr-latch")
  => lAltRes.outputs = lRes.outputs

\* the multiplexer called with one input vector and two different states
C8_Witness ==
  /\ lpc = "alt" /\ lExp = "multiplexer"
  /\ lInputs = [Select |-> "true", In0 |-> "false", In1 |-> "true"]
  /\ lArg = [count |-> 9] /\ lAltState = EmptyState
  /\ lRes.outputs = [Y |-> "true"]

\* C9: counter step.  With clockEdge = true the count becomes (c+1) mod 16
\* when CountUp is asserted and CountDown is not, (c-1+16) mod 16 when
\* CountDown is asserted and CountUp is not, and stays c when both or
\* neither are asserted; with clockEdge = false it stays c.
C9_CounterStep ==
  (LogicCalled /\ lExp = "counter" /\ lArg \in StateDomain("counter")) =>
    LET c == lArg.count
        n == lRes.newState.count
        up == Truthy(Get(lInputs, "CountUp"))
        down == Truthy(Get(lInputs, "CountDown"))
    IN /\ (lEdge /\ up /\ ~down) => n = (IF c = 15 THEN 0 ELSE c + 1)
       /\ (lEdge /\ down /\ ~up) => n = (IF c = 0 THEN 15 ELSE c - 1)
       /\ (lEdge /\ (up <=> down)) => n = c
       /\ ~lEdge => n = c

\* a down edge at count 0 wrapped to 15
C9_Witness ==
  /\ lpc = "once" /\ lExp = "counter" /\ lEdge
  /\ lInputs = [CountUp |-> "false", CountDown |-> "true"]
  /\ lArg = [count |-> 0]
  /\ lRes.newState = [count |-> 15]

\* 1 for an output that is true, 0 for one that is false
Digit(v) == IF v = "true" THEN 1 ELSE 0

\* C12: counter output encoding.  In every evaluation the outputs Q3, Q2,
\* Q1, Q0 are the binary digits, most significant first, of the count
\* stored in newState (the count after the transition of that same call):
\* 8*Q3 + 4*Q2 + 2*Q1 + Q0 = newState.count.
C12_CounterOutputEncoding ==
  (LogicCalled /\ lExp = "counter") =>
    /\ \A q \in {"Q3", "Q2", "Q1", "Q0"} :
         lRes.outputs[q] \in {"true", "false"}
    /\ 8 * Digit(lRes.outputs.Q3) + 4 * Digit(lRes.outputs.Q2)
         + 2 * Digit(lRes.outputs.Q1) + Digit(lRes.outputs.Q0)
       = lRes.newState.count

\* an up edge at count 9 shows 1010, the digits of 10, not those of 9
C12_Witness ==
  /\ lpc = "once" /\ lExp = "counter" /\ lEdge
  /\ lInputs = [CountUp |-> "true", CountDown |-> "false"]
  /\ lArg = [count |-> 9]
  /\ lRes.newState = [count |-> 10]
  /\ lRes.outputs =
       [Q3 |-> "true", Q2 |-> "false", Q1 |-> "true", Q0 |-> "false"]

\* C16: FSM accumulator step.  For every accumulator value a in 0..15, a
\* call with Reset asserted yields accumulator 0 regardless of clockEdge,
\* Add1 and Add2; a call with Reset low and clockEdge = true yields
\* (a + (Add1 ? 1 : 0) + (Add2 ? 2 : 0)) mod 16; a call with Reset low and
\* clockEdge = false yields a.
C16_AccumulatorStep ==
  ( /\ LogicCalled /\ lExp = "fsm-accumulator"
    /\ lArg \in { [accumulator |-> a] : a \in 0..15 } ) =>
    LET a == lArg.accumulator
        n == lRes.newState.accumulator
        add == (IF Truthy(Get(lInputs, "Add1")) THEN 1 ELSE 0)
               + (IF Truthy(Get(lInputs, "Add2")) THEN 2 ELSE 0)
        sum == IF a + add >= 16 THEN a + add - 16 ELSE a + add
    IN /\ ResetAsserted => n = 0
       /\ (~ResetAsserted /\ lEdge) => n = sum
       /\ (~ResetAsserted /\ ~lEdge) => n = a

\* Reset asserted between clock edges, with both Add inputs asserted,
\* clears the accumulator
C16_Witness ==
  /\ lpc = "once" /\ lExp = "fsm-accumulator" /\ ~lEdge
  /\ lInputs = [Add1 |-> "true", Add2 |-> "true", Reset |-> "true"]
  /\ lArg = [accumulator |-> 14]
  /\ lRes.newState = [accumulator |-> 0]

\* C17: FSM accumulator outputs.  In every evaluation Overflow is true iff
\* the accumulator value stored in newState is >= 15 and Carry is true iff
\* that value is > 0 (both from the value after the transition of the same
\* call); consequently Overflow implies Carry.
C17_AccumulatorOutputs ==
  (LogicCalled /\ lExp = "fsm-accumulator") =>
    LET n == lRes.newState.accumulator
    IN /\ lRes.outputs.Overflow = Bool(n >= 15)
       /\ lRes.outputs.Carry = Bool(n > 0)
       /\ lRes.outputs.Overflow = "true" => lRes.outputs.Carry = "true"

\* 14 + 1 on a clock edge: Overflow and Carry show 15, the value after the
\* transition
C17_Witness ==
  /\ lpc = "once" /\ lExp = "fsm-accumulator" /\ lEdge
  /\ lInputs = [Add1 |-> "true", Add2 |-> "false", Reset |-> "false"]
  /\ lArg = [accumulator |-> 14]
  /\ lRes.newState = [accumulator |-> 15]
  /\ lRes.outputs = [Overflow |-> "true", Carry |-> "true"]

\* the six outputs with exactly the LEDs of `lit` true
Lit(lit) ==
  [ led \in {"R1", "Y1", "G1", "R2", "Y2", "G2"} |-> Bool(led \in lit) ]

\* C20: traffic-light output mapping.  With Override low, the six outputs
\* are determined by the state stored in newState: state 0 lights exactly
\* G1 and R2, state 1 exactly Y1 and R2, state 2 exactly R1 and G2, state 3
\* exactly R1 and Y2, all other LEDs false.
C20_TrafficLightOutputMapping ==
  ( /\ LogicCalled /\ lExp = "traffic-light"
    /\ ~Truthy(Get(lInputs, "Override")) ) =>
    LET phase == lRes.newState.state
    IN /\ phase \in 0..3
       /\ phase = 0 => lRes.outputs = Lit({"G1", "R2"})
       /\ phase = 1 => lRes.outputs = Lit({"Y1", "R2"})
       /\ phase = 2 => lRes.outputs = Lit({"R1", "G2"})
       /\ phase = 3 => lRes.outputs = Lit({"R1", "Y2"})

\* the clock edge that ends phase 0: the outputs are those of phase 1, the
\* state after the transition
C20_Witness ==
  /\ lpc = "once" /\ lExp = "traffic-light" /\ lEdge
  /\ lInputs = [Override |-> "false"]
  /\ lArg = [state |-> 0, subCycle |-> 2]
  /\ lRes.newState = [state |-> 1, subCycle |-> 0]
  /\ lRes.outputs = Lit({"Y1", "R2"})

\* C22: priority encoder.  For all 16 input vectors, (Y1, Y0) is the 2-bit
\* index of the highest-numbered asserted input among I3, I2, I1, I0 (I3
\* gives (1,1), I2 (1,0), I1 (0,1), I0 (0,0)), lower-priority inputs never
\* affect the result, and (0,0) is output when no input is asserted.
C22_PriorityEncoder ==
  ( /\ LogicCalled /\ lExp = "priority-encoder"
    /\ lInputs \in [ {"I0", "I1", "I2", "I3"} -> {"true", "false"} ] ) =>
    LET asserted == { i \in 0..3 :
                       lInputs[<<"I0", "I1", "I2", "I3">>[i + 1]] = "true" }
        highest == IF asserted = {} THEN 0
                   ELSE CHOOSE i \in asserted : \A j \in asserted : j <= i
    IN /\ lRes.outputs.Y1 \in {"true", "false"}
       /\ lRes.outputs.Y0 \in {"true", "false"}
       /\ 2 * Digit(lRes.outputs.Y1) + Digit(lRes.outputs.Y0) = highest

\* I2 asserted together with I1 and I0: the code is that of I2
C22_Witness ==
  /\ lpc = "once" /\ lExp = "priority-encoder"
  /\ lInputs = [I0 |-> "true", I1 |-> "true", I2 |-> "true", I3 |-> "false"]
  /\ lRes.outputs = [Y1 |-> "true", Y0 |-> "false"]

\* C23: full adder.  For all 8 input vectors, Sum = A XOR B XOR Cin and
\* Cout = (A AND B) OR (Cin AND (A XOR B)), so that A + B + Cin =
\* 2*Cout + Sum as integers.
C23_FullAdder ==
  ( /\ LogicCalled /\ lExp = "full-adder"
    /\ lInputs \in [ {"A", "B", "Cin"} -> {"true", "false"} ] ) =>
    LET a == lInputs.A = "true"
        b == lInputs.B = "true"
        cin == lInputs.Cin = "true"
        axb == (a /\ ~b) \/ (~a /\ b)
    IN /\ lRes.outputs.Sum = Bool((axb /\ ~cin) \/ (~axb /\ cin))
       /\ lRes.outputs.Cout = Bool((a /\ b) \/ (cin /\ axb))
       /\ Digit(lInputs.A) + Digit(lInputs.B) + Digit(lInputs.Cin)
            = 2 * Digit(lRes.outputs.Cout) + Digit(lRes.outputs.Sum)

\* 1 + 0 + 1 = 2: the carry comes from Cin and A XOR B
C23_Witness ==
  /\ lpc = "once" /\ lExp = "full-adder"
  /\ lInputs = [A |-> "true", B |-> "false", Cin |-> "true"]
  /\ lRes.outputs = [Sum |-> "false", Cout |-> "true"]

---------------------------------------------------------------------------
(* Claims about runs of logic() calls (specification RunSpec)              *)

UpEdge(call) ==
  /\ call.edge
  /\ Truthy(Get(call.inputs, "CountUp"))
  /\ ~Truthy(Get(call.inputs, "CountDown"))

DownEdge(call) ==
  /\ call.edge
  /\ Truthy(Get(call.inputs, "CountDown"))
  /\ ~Truthy(Get(call.inputs, "CountUp"))

\* C10: counter wraparound.  From any count c, 16 consecutive clock edges
\* with CountUp=true, CountDown=false return the count to c; from count 0
\* one clock edge with CountDown=true, CountUp=false gives 15; an up edge
\* followed by a down edge restores the count.
C10_CounterWraparound ==
  (rExp = "counter" /\ rLast # NoCall) =>
    /\ (rRun = 16 /\ UpEdge(rLast)) => rState = rRunBase
    /\ (DownEdge(rLast) /\ rLast.before = [count |-> 0]) =>
         rState = [count |-> 15]
    /\ (rPrev # NoCall /\ UpEdge(rPrev) /\ DownEdge(rLast)) =>
         rState = rPrev.before

\* sixteen up edges in a row from the initial count 0, back at 0, the
\* sixteenth having wrapped from 15
C10_Witness ==
  /\ rExp = "counter" /\ rLast # NoCall
  /\ rRun = 16 /\ UpEdge(rLast)
  /\ rRunBase = InitialState("counter")
  /\ rLast.before = [count |-> 15]
  /\ rState = [count |-> 0]

\* C21: SR latch.  On every evaluation, with no clock needed, if Reset is
\* asserted all of Q1, Q2, Q3 become false even when Set inputs are
\* asserted in the same call; otherwise Qi becomes true when Seti is
\* asserted and keeps its previous value when it is not.  Hence once Qi is
\* true it stays true over evaluations with Reset low, and the outputs
\* always equal the stored state.
C21_SrLatch ==
  (rExp = "sr-latch" /\ rLast # NoCall) =>
    /\ rOut = rState
    /\ \A i \in 1..3 :
         LET q == <<"Q1", "Q2", "Q3">>[i]
             set == <<"Set1", "Set2", "Set3">>[i]
         IN /\ rLast.inputs.Reset = "true" => rState[q] = "false"
            /\ (rLast.inputs.Reset = "false" /\ rLast.inputs[set] = "true")
                 => rState[q] = "true"
            /\ (rLast.inputs.Reset = "false" /\ rLast.inputs[set] = "false")
                 => rState[q] = rLast.before[q]
            /\ (rLast.inputs.Reset = "false" /\ rLast.before[q] = "true")
                 => rState[q] = "true"

\* Q2 was set by the call before; the last call has every input low, no
\* clock edge, and Q2 is still true
C21_Witness ==
  /\ rExp = "sr-latch" /\ rLast # NoCall /\ rPrev # NoCall
  /\ rPrev.before = InitialState("sr-latch")
  /\ rPrev.inputs = [Set1 |-> "false", Set2 |-> "true", Set3 |-> "false",
                     Reset |-> "false"]
  /\ rLast.inputs = [Set1 |-> "false", Set2 |-> "false", Set3 |-> "false",
                     Reset |-> "false"]
  /\ ~rLast.edge
  /\ rState = [Q1 |-> "false", Q2 |-> "true", Q3 |-> "false"]

\* the last two calls had the same inputs and no clock edge
RepeatedWithoutEdge ==
  /\ rLast # NoCall /\ rPrev # NoCall
  /\ rLast.inputs = rPrev.inputs
  /\ ~rLast.edge /\ ~rPrev.edge

\* C35: idempotence of non-edge evaluation.  For every experiment, every
\* input vector and every reachable state, evaluating twice in a row with
\* the same inputs and clockEdge = false gives the same outputs and the
\* same newState as evaluating once, so repeated re-evaluation by the
\* driver without a tick never drifts the circuit state.
C35_NonEdgeIdempotent ==
  RepeatedWithoutEdge =>
    /\ rState = rLast.before
    /\ rOut = Logic(rExp, rPrev.inputs, rPrev.before, FALSE).outputs

\* sr-latch from all-false: Set1 high twice without a clock edge; the first
\* call changed the state, the second left it alone
C35_Witness ==
  /\ rExp = "sr-latch" /\ RepeatedWithoutEdge
  /\ rPrev.before = [Q1 |-> "false", Q2 |-> "false", Q3 |-> "false"]
  /\ rLast.inputs = [Set1 |-> "true", Set2 |-> "false", Set3 |-> "false",
                     Reset |-> "false"]
  /\ rLast.before = [Q1 |-> "true", Q2 |-> "false", Q3 |-> "false"]
  /\ rState = rLast.before
  /\ rOut = rState

---------------------------------------------------------------------------
(* Claims about traces of logic() calls from initialState()                *)
(* (specifications TraceSpec and TrafficCycleSpec)                         *)

TraceCalled == tLast # NoCall

\* C11: range invariant of held state.  In every state reachable from an
\* experiment's initialState() by any sequence of evaluations, with or
\* without clock edges, counter.count is in 0..15, shift-register.register
\* in 0..255, fsm-accumulator.accumulator in 0..15, traffic-light.state in
\* 0..3 with subCycle in 0..2, and sequence-detector.history has length at
\* most 3 with every element 0 or 1.
C11_HeldStateInRange ==
  /\ tExp = "counter" => tState.count \in 0..15
  /\ tExp = "shift-register" => tState.register \in 0..255
  /\ tExp = "fsm-accumulator" => tState.accumulator \in 0..15
  /\ tExp = "traffic-light" =>
       (tState.state \in 0..3 /\ tState.subCycle \in 0..2)
  /\ tExp = "sequence-detector" =>
       /\ Len(tState.history) <= 3
       /\ \A i \in 1..Len(tState.history) : tState.history[i] \in {0, 1}

\* the register full of ones takes one more 1 on a clock edge and stays 255
C11_Witness ==
  /\ tExp = "shift-register" /\ TraceCalled /\ tLast.edge
  /\ tLast.inputs.Data = "true"
  /\ tLast.before = [register |-> 255]
  /\ tState = [register |-> 255]

\* the value of a bit sequence whose first element is the least significant
RECURSIVE BitsValue(_)
BitsValue(bits) ==
  IF bits = <<>> THEN 0 ELSE Head(bits) + 2 * BitsValue(Tail(bits))

\* the k-th most recent sample, or 0 when fewer than k edges have occurred
SampleAt(k) == IF k <= Len(tSamples) THEN tSamples[k] ELSE 0

\* C13: shift-register FIFO discipline.  Starting from register = 0, after
\* any sequence of clock edges output Qk (k = 0..7) equals the Data value
\* sampled at the (k+1)-th most recent clock edge, or false when fewer than
\* k+1 edges have occurred; a bit is dropped once 8 later edges have
\* occurred (the register holds the last 8 samples, Q7 the earliest of
\* them); evaluations without a clock edge leave the register unchanged
\* whatever Data is.
C13_ShiftRegisterFifo ==
  (tExp = "shift-register" /\ TraceCalled) =>
    /\ \A k \in 0..7 :
         tOut[<<"Q0", "Q1", "Q2", "Q3", "Q4", "Q5", "Q6", "Q7">>[k + 1]]
           = Bool(SampleAt(k + 1) = 1)
    /\ tState.register = BitsValue([k \in 1..8 |-> SampleAt(k)])
    /\ ~tLast.edge => tState = tLast.before

\* the bits 1,0,1,1,0,0,0,0,1 were clocked in: the first 1 is gone, the
\* register holds the other eight and Q7 shows the second bit, 0
C13_Witness ==
  /\ tExp = "shift-register" /\ TraceCalled /\ tLast.edge
  /\ tEdges = 9
  /\ tSamples = <<1, 0, 0, 0, 0, 1, 1, 0, 1>>
  /\ tState = [register |-> 97]
  /\ tOut.Q7 = "false" /\ tOut.Q6 = "true" /\ tOut.Q0 = "true"

\* the last call had Reset asserted
TraceReset == Truthy(Get(tLast.inputs, "Reset"))

\* the three most recent samples since the history was last empty are
\* 1, 0, 1 in the order they were sampled
LastThreeAre101 ==
  /\ Len(tSamples) >= 3
  /\ tSamples[3] = 1 /\ tSamples[2] = 0 /\ tSamples[1] = 1

\* C14: sequence detector exact match.  With Reset low, after each clock
\* edge Detected is true iff at least three edges have been sampled since
\* the history was last empty and the Bit values sampled at the last three
\* edges were 1,0,1 in that order (so 1,0,1 asserts it on the 3rd edge and
\* not before, 1,1,1 never does, 1,0,1,0,1 asserts it on the 3rd and 5th
\* edges), and between edges Detected keeps its value.
C14_DetectorExactMatch ==
  (tExp = "sequence-detector" /\ TraceCalled /\ ~TraceReset) =>
    /\ tLast.edge => (tOut.Detected = "true" <=> LastThreeAre101)
    /\ (~tLast.edge /\ tLast.outBefore # <<>>) =>
         tOut.Detected = tLast.outBefore.Detected

\* the overlapping stream 1,0,1,0,1: Detected on the 5th edge, after the
\* 4th edge had shown it false
C14_Witness ==
  /\ tExp = "sequence-detector" /\ TraceCalled /\ tLast.edge
  /\ ~TraceReset
  /\ tEdges = 5
  /\ tSamples = <<1, 0, 1, 0, 1>>
  /\ tLast.outBefore.Detected = "false"
  /\ tOut.Detected = "true"

\* C15: sequence detector reset.  Every evaluation with Reset asserted,
\* with or without a clock edge and whatever Bit and the prior history are,
\* returns an empty history and Detected = false in that same evaluation;
\* a clock edge arriving while Reset is asserted appends no sample, so
\* Detected is true only when at least three edges have been sampled since
\* Reset was released.
C15_DetectorReset ==
  (tExp = "sequence-detector" /\ TraceCalled) =>
    /\ TraceReset =>
         (tState = [history |-> <<>>] /\ tOut.Detected = "false")
    /\ tOut.Detected = "true" => Len(tSamples) >= 3

\* 1,0 had been sampled; the edge that brings Bit = 1 comes with Reset
\* asserted: nothing is appended, nothing is detected
C15_Witness ==
  /\ tExp = "sequence-detector" /\ TraceCalled /\ tLast.edge
  /\ tLast.inputs = [Bit |-> "true", Reset |-> "true"]
  /\ tLast.before = [history |-> <<1, 0>>]
  /\ tState = [history |-> <<>>]
  /\ tOut.Detected = "false"
  /\ tSamples = <<>>

\* the last call had Override asserted
TraceOverride == Truthy(Get(tLast.inputs, "Override"))

\* where the cycle stands after a call without Override made at `held`
Continued(held, edge) ==
  IF ~edge THEN held
  ELSE IF held.subCycle < 2
    THEN [state |-> held.state, subCycle |-> held.subCycle + 1]
  ELSE [state |-> IF held.state = 3 THEN 0 ELSE held.state + 1,
        subCycle |-> 0]

\* C18: traffic-light override precedence.  For every (state, subCycle)
\* and either value of clockEdge, a call with Override asserted outputs
\* R1, Y1, R2, Y2 true and G1, G2 false and returns state and subCycle
\* unchanged; clock edges that arrive while Override is asserted do not
\* advance the cycle, so once Override is released the sequence continues
\* from the state and subCycle it had when Override was first asserted.
C18_OverridePrecedence ==
  (tExp = "traffic-light" /\ TraceCalled) =>
    /\ TraceOverride =>
         /\ tOut = [ R1 |-> "true", Y1 |-> "true", G1 |-> "false",
                     R2 |-> "true", Y2 |-> "true", G2 |-> "false" ]
         /\ tState = tLast.before
         /\ tState = tHeld
    /\ tReleasedFrom # NoHold =>
         tState = Continued(tReleasedFrom, tLast.edge)

\* Override was asserted at (state 1, subCycle 2), two clock edges arrived
\* under it, and the edge that came with Override released moved the
\* cycle to (state 2, subCycle 0)
C18_Witness ==
  /\ tExp = "traffic-light" /\ TraceCalled /\ tLast.edge
  /\ ~TraceOverride
  /\ tReleasedFrom = [state |-> 1, subCycle |-> 2]
  /\ tEdges = 8
  /\ tState = [state |-> 2, subCycle |-> 0]
  /\ tOut.R1 = "true" /\ tOut.G2 = "true"

\* the cycle ran from (0, 0) with Override low in every call, and the
\* number of clock edges so far is known exactly
CycleCounted ==
  tExp = "traffic-light" /\ ~tOverrideSeen /\ tEdges < MaxEdges

Phase(p) == tExp = "traffic-light" /\ tState.state = p

\* C19: traffic-light cycle.  With Override low, starting from (state 0,
\* subCycle 0), after n clock edges subCycle equals n mod 3 and state
\* equals floor(n/3) mod 4 (every phase lasts exactly 3 clock edges, the
\* phases come in the order 0,1,2,3,0,..., the cycle has period 12), and
\* under a clock that keeps ticking every phase recurs infinitely often.
C19_TrafficLightCycle ==
  /\ [](CycleCounted =>
          /\ tState.subCycle = tEdges % 3
          /\ tState.state = (tEdges \div 3) % 4)
  /\ (tExp = "traffic-light" /\ []~tOverrideSeen) =>
       /\ []<>Phase(0)
       /\ []<>Phase(1)
       /\ []<>Phase(2)
       /\ []<>Phase(3)

\* the twelfth clock edge closes the cycle: from (3, 2) back to (0, 0)
C19_Witness ==
  /\ tExp = "traffic-light" /\ TraceCalled /\ tLast.edge
  /\ ~tOverrideSeen
  /\ tEdges = 12
  /\ tLast.before = [state |-> 3, subCycle |-> 2]
  /\ tState = [state |-> 0, subCycle |-> 0]

\* the number of LEDs of `leds` that are lit in the last outputs
LitAmong(leds) == Cardinality({ led \in leds : tOut[led] = "true" })

\* C34: traffic-light safety.  In every evaluation reachable from the
\* initial state by any sequence of Override values and clock edges, G1
\* and G2 are never both true; and whenever Override is low, exactly one
\* of R, Y, G is lit for each direction and at least one of the two
\* directions shows red.
C34_TrafficLightSafety ==
  (tExp = "traffic-light" /\ TraceCalled) =>
    /\ ~(tOut.G1 = "true" /\ tOut.G2 = "true")
    /\ ~TraceOverride =>
         /\ LitAmong({"R1", "Y1", "G1"}) = 1
         /\ LitAmong({"R2", "Y2", "G2"}) = 1
         /\ tOut.R1 = "true" \/ tOut.R2 = "true"

\* the sixth clock edge, Override low throughout: direction 2 turns green
\* while direction 1 shows red
C34_Witness ==
  /\ tExp = "traffic-light" /\ TraceCalled /\ tLast.edge
  /\ ~tOverrideSeen /\ tEdges = 6
  /\ tLast.before = [state |-> 1, subCycle |-> 2]
  /\ tState = [state |-> 2, subCycle |-> 0]
  /\ tOut.G2 = "true" /\ tOut.R1 = "true" /\ tOut.G1 = "false"

\* the last call was a clock edge with Reset low that left the accumulator
\* smaller than it was
AccumulatorWrapped ==
  /\ tExp = "fsm-accumulator" /\ TraceCalled
  /\ tLast.edge /\ ~TraceReset
  /\ tState.accumulator < tLast.before.accumulator

---------------------------------------------------------------------------
(* Claims about getWires (specification WireSpec)                          *)

WiresCalled == wpc = "called"

DeclaredInputs == InputList(wExp)

DeclaredOutputs == OutputList(wExp)

\* the layout knows the position of pin pinNum
HasPinPosition(pinNum) ==
  "pinPositions" \in DOMAIN wLayout /\ pinNum \in DOMAIN wLayout.pinPositions

\* the position of every pin mapped to a declared id is in the layout
PinGeometryAvailable ==
  /\ \A i \in 1..Len(DeclaredInputs) :
       HasPinPosition(PinMapping(wExp).inputs[DeclaredInputs[i]])
  /\ \A j \in 1..Len(DeclaredOutputs) :
       HasPinPosition(PinMapping(wExp).outputs[DeclaredOutputs[j]])

PinCoordinate(pinNum) ==
  Point(wLayout.pinPositions[pinNum].x, wLayout.pinPositions[pinNum].y)

StartOf(wire) == wire.points[1]

EndOf(wire) == wire.points[Len(wire.points)]

\* C25: wire order and endpoints.  When pin geometry is available,
\* getWires returns the input wires in declared input order followed by
\* the output wires in declared output order; the i-th input wire starts
\* at the i-th input anchor and ends at the coordinate of that input's
\* mapped pin, and the j-th output wire starts at the coordinate of that
\* output's mapped pin and ends at the j-th output anchor.
C25_WireOrderAndEndpoints ==
  (WiresCalled /\ PinGeometryAvailable) =>
    /\ Len(wWires) = Len(DeclaredInputs) + Len(DeclaredOutputs)
    /\ \A i \in 1..Len(DeclaredInputs) :
         LET id == DeclaredInputs[i]
         IN /\ wWires[i].active = wInputs[id]
            /\ wWires[i].delay = Num(0)
            /\ StartOf(wWires[i]) = wLayout.inputPositions[i]
            /\ EndOf(wWires[i]) = PinCoordinate(PinMapping(wExp).inputs[id])
    /\ \A j \in 1..Len(DeclaredOutputs) :
         LET id == DeclaredOutputs[j]
             wire == wWires[Len(DeclaredInputs) + j]
         IN /\ wire.active = wOutputs[id]
            /\ wire.delay # Num(0)
            /\ StartOf(wire) = PinCoordinate(PinMapping(wExp).outputs[id])
            /\ EndOf(wire) = wLayout.outputPositions[j]

\* counter with every pin position known: six wires, CountUp high alone
\* among the inputs and Q0 high alone among the outputs; the first wire
\* runs from the first switch to pin 5 and the last from pin 3 to the
\* fourth LED
C25_Witness ==
  /\ WiresCalled /\ wExp = "counter" /\ PinGeometryAvailable
  /\ wInputs = [CountUp |-> "true", CountDown |-> "false"]
  /\ wOutputs = [Q3 |-> "false", Q2 |-> "false", Q1 |-> "false",
                 Q0 |-> "true"]
  /\ Len(wWires) = 6
  /\ wWires[1].active = "true" /\ wWires[2].active = "false"
  /\ wWires[6].active = "true" /\ wWires[5].active = "false"
  /\ StartOf(wWires[1]) = wLayout.inputPositions[1]
  /\ EndOf(wWires[1]) = PinCoordinate(5)
  /\ StartOf(wWires[6]) = PinCoordinate(3)
  /\ EndOf(wWires[6]) = wLayout.outputPositions[4]
  /\ PinCoordinate(5) # PinCoordinate(4)

\* two points differ in at most one coordinate
Aligned(a, b) == a.x = b.x \/ a.y = b.y

\* C26: orthogonal routing.  Every non-degenerate wire is exactly the
\* 4-point polyline (startX,startY), (midX,startY), (midX,endY),
\* (endX,endY) with midX the midpoint of startX and endX, so each
\* consecutive pair of points differs in at most one coordinate
\* (horizontal, then vertical, then horizontal).
C26_OrthogonalRouting ==
  WiresCalled =>
    \A k \in 1..Len(wWires) :
      LET pts == wWires[k].points
      IN Len(pts) > 1 =>
           /\ Len(pts) = 4
           /\ Plus(pts[2].x, pts[2].x) = Plus(pts[1].x, pts[4].x)
           /\ pts[2] = Point(pts[2].x, pts[1].y)
           /\ pts[3] = Point(pts[2].x, pts[4].y)
           /\ pts[1].y = pts[2].y /\ pts[2].x = pts[3].x /\ pts[3].y = pts[4].y
           /\ \A n \in 1..3 : Aligned(pts[n], pts[n + 1])

\* a wire of full-adder between a switch and a pin at another height: four
\* distinct points, the bend strictly between the two ends
C26_Witness ==
  /\ WiresCalled /\ wExp = "full-adder" /\ PinGeometryAvailable
  /\ LET pts == wWires[1].points
     IN /\ Len(pts) = 4
        /\ pts[1].y # pts[4].y
        /\ Less(pts[1].x, pts[2].x) /\ Less(pts[2].x, pts[4].x)
        /\ pts[2].y = pts[1].y /\ pts[3].y = pts[4].y
        /\ pts[2].x = pts[3].x

\* the wire consists of the single point `anchor`
DegenerateAt(wire, anchor) == wire.points = << anchor >>

PinNumbers(part) ==
  { IC_LIBRARY[part].pins[i].number : i \in 1..Len(IC_LIBRARY[part].pins) }

\* C29: pin-mapping consistency.  For every experiment in the catalog,
\* icChip names a package present in IC_LIBRARY, pinMapping has exactly
\* one entry for each declared input id and each declared output id and
\* no entry for an undeclared id, every mapped pin number (the optional
\* clock pin included) exists in that package, and the pin number getWires
\* uses for an id equals that id's pinMapping entry.
C29_PinMappingConsistency ==
  wpc # "off" =>
    LET mapping == PinMapping(wExp)
        inputIds == { DeclaredInputs[i] : i \in 1..Len(DeclaredInputs) }
        outputIds == { DeclaredOutputs[j] : j \in 1..Len(DeclaredOutputs) }
    IN /\ HasPackage(IcChip(wExp))
       /\ DOMAIN mapping.inputs = inputIds
       /\ DOMAIN mapping.outputs = outputIds
       /\ Cardinality(inputIds) = Len(DeclaredInputs)
       /\ Cardinality(outputIds) = Len(DeclaredOutputs)
       /\ \A id \in inputIds : mapping.inputs[id] \in PinNumbers(IcChip(wExp))
       /\ \A id \in outputIds :
            mapping.outputs[id] \in PinNumbers(IcChip(wExp))
       /\ "clock" \in DOMAIN mapping =>
            mapping.clock \in PinNumbers(IcChip(wExp))
       /\ \A i \in 1..Len(DeclaredInputs) :
            /\ At(InputWireKeys(wExp), i) = DeclaredInputs[i]
            /\ InputWirePin(wExp, DeclaredInputs[i])
                 = mapping.inputs[DeclaredInputs[i]]
       /\ \A j \in 1..Len(DeclaredOutputs) :
            /\ OutputWireKey(wExp, j) = DeclaredOutputs[j]
            /\ OutputWirePin(wExp, DeclaredOutputs[j])
                 = mapping.outputs[DeclaredOutputs[j]]
       /\ (WiresCalled /\ PinGeometryAvailable) =>
            /\ \A i \in 1..Len(DeclaredInputs) :
                 EndOf(wWires[i])
                   = PinCoordinate(mapping.inputs[DeclaredInputs[i]])
            /\ \A j \in 1..Len(DeclaredOutputs) :
                 StartOf(wWires[Len(DeclaredInputs) + j])
                   = PinCoordinate(mapping.outputs[DeclaredOutputs[j]])

\* counter on its 74193 with every pin position known: the CountUp wire
\* ends at the pin that pinMapping also names as the clock pin, the
\* CountDown wire at another pin
C29_Witness ==
  /\ WiresCalled /\ wExp = "counter" /\ PinGeometryAvailable
  /\ IcChip(wExp) = "74193"
  /\ EndOf(wWires[1]) = PinCoordinate(PinMapping(wExp).clock)
  /\ EndOf(wWires[2]) = PinCoordinate(PinMapping(wExp).inputs.CountDown)
  /\ EndOf(wWires[2]) # EndOf(wWires[1])

---------------------------------------------------------------------------
(* Claims about the packages and their pin geometry (specification         *)
(* PinSpec)                                                                *)

PinsLookedUp == ppc # "off"

PositionsCalculated == ppc = "called"

Package == IC_LIBRARY[pPart]

\* C28: pin numbering invariant.  For every package in IC_LIBRARY with
\* pinCount N, the pins list contains each pin number 1..N exactly once;
\* pins 1..N/2 are on the left with position number-1 (top to bottom),
\* pins N/2+1..N are on the right with position N-number (bottom to top),
\* so every (side, position) pair with position in 0..N/2-1 is occupied by
\* exactly one pin.
C28_PinNumbering ==
  PinsLookedUp =>
    LET N == Package.pinCount
        pins == Package.pins
        half == N \div 2
    IN /\ 2 * half = N
       /\ \A n \in 1..N :
            Cardinality({ i \in 1..Len(pins) : pins[i].number = n }) = 1
       /\ \A i \in 1..Len(pins) :
            /\ pins[i].number \in 1..N
            /\ pins[i].number \in 1..half =>
                 pins[i].side = "left"
                 /\ pins[i].position = pins[i].number - 1
            /\ pins[i].number \in (half + 1)..N =>
                 pins[i].side = "right"
                 /\ pins[i].position = N - pins[i].number
       /\ \A side \in {"left", "right"} : \A pos \in 0..(half - 1) :
            Cardinality({ i \in 1..Len(pins) :
                            pins[i].side = side /\ pins[i].position = pos })
              = 1

\* the 16-pin 74193: pin 8 closes the left side at position 7, pin 9 is
\* opposite it at position 7 of the right side, pin 16 is opposite pin 1
C28_Witness ==
  /\ PositionsCalculated /\ pPart = "74193"
  /\ Len(Package.pins) = 16
  /\ Package.pins[8].side = "left" /\ Package.pins[8].position = 7
  /\ Package.pins[9].side = "right" /\ Package.pins[9].position = 7
  /\ Package.pins[16].side = "right" /\ Package.pins[16].position = 0
  /\ Package.pins[1].side = "left" /\ Package.pins[1].position = 0
  /\ Len(pPositions) = 16

\* the box as numbers
BoxX == Num(pBox.x)

BoxY == Num(pBox.y)

BoxWidth == Num(pBox.width)

BoxHeight == Num(pBox.height)

\* C30: pin geometry.  calculatePinPositions returns exactly one position
\* per pin of the package; a pin at side position p has
\* y = chipY + (p+1) * chipHeight / (pinCount/2 + 1), with x = chipX - 8
\* on the left side and x = chipX + chipWidth + 8 on the right side;
\* hence pins on one side are evenly spaced and strictly inside the box
\* vertically, and pin n and pin pinCount+1-n are at the same height.
C30_PinGeometry ==
  PositionsCalculated =>
    LET N == Package.pinCount
        pins == Package.pins
        PositionOf(n) ==
          CHOOSE pos \in { pPositions[i] : i \in 1..Len(pPositions) } :
            pos.number = n
    IN /\ Len(pPositions) = Len(pins)
       /\ \A n \in 1..N :
            Cardinality({ i \in 1..Len(pPositions) :
                            pPositions[i].number = n }) = 1
       /\ \A i \in 1..Len(pins) :
            LET pin == pins[i]
                pos == pPositions[i]
            IN /\ pos.number = pin.number
               /\ pos.y = Plus(BoxY,
                                Frac((pin.position + 1) * pBox.height,
                                     N \div 2 + 1))
               /\ pin.side = "left" => pos.x = Num(pBox.x - 8)
               /\ pin.side = "right" =>
                    pos.x = Num(pBox.x + pBox.width + 8)
               /\ Less(BoxY, pos.y)
               /\ Less(pos.y, Plus(BoxY, BoxHeight))
       /\ \A i, k \in 1..Len(pins) :
            (pins[i].side = pins[k].side
               /\ pins[k].position = pins[i].position + 1) =>
              pPositions[k].y
                = Plus(pPositions[i].y, Frac(pBox.height, N \div 2 + 1))
       /\ \A n \in 1..N : PositionOf(n).y = PositionOf(N + 1 - n).y

\* the 14-pin 7408 in a box 75 high at y = 24: the spacing is 75/8, pin 1
\* and pin 14 lie at 24 + 75/8 on either side of the box, pin 7 and pin 8
\* at 24 + 7*75/8
C30_Witness ==
  /\ PositionsCalculated /\ pPart = "7408"
  /\ pBox = [x |-> 136, y |-> 24, width |-> 128, height |-> 75]
  /\ pPositions[1].y = Frac(24 * 8 + 75, 8)
  /\ pPositions[14].y = pPositions[1].y
  /\ pPositions[7].y = Frac(24 * 8 + 7 * 75, 8)
  /\ pPositions[8].y = pPositions[7].y
  /\ pPositions[1].x = Num(128)
  /\ pPositions[14].x = Num(272)

---------------------------------------------------------------------------
(* Claims about the MQTT bridge (specifications MqttSpec and BridgeSpec)    *)

Delivered == mLast.op = "message"

Registered(topic) == HandleMessage(mCallbacks, topic)

IsBoolean(v) == v \in {"true", "false"}

\* C31: a broker message whose payload is not valid JSON, or whose value
\* field is not a boolean, or whose topic has no registered callback, is
\* dropped: no subscriber callback is invoked with it and the input vector
\* never holds anything but booleans.
C31_MalformedDropped ==
  /\ Delivered =>
       ( ( \/ mLast.message.json # "object"
           \/ ~IsBoolean(mLast.message.value)
           \/ Registered(mLast.message.topic) = {} )
         => mLast.invoked = {} )
  /\ \A k \in DOMAIN bInputs : IsBoolean(bInputs[k])

\* C32: whatever the hook publishes is tagged 'web'; a callback registered
\* through subscribeToInput is invoked only for messages tagged 'hardware';
\* so a value the web side published on an input topic is never written
\* back to the input vector when the broker returns it.
C32_NoFeedback ==
  /\ [](/\ \A m \in inflight : m.origin = "web" => m.source = "web"
        /\ Delivered =>
             \A i \in mLast.invoked :
               hHandlers[i.handler].type = "input"
                 => i.source = "hardware" /\ i.origin # "web")
  /\ [][ (mLast'.op = "message" /\ mLast'.message.origin = "web")
           => bInputs' = bInputs ]_vars

C32_Witness ==
  /\ Delivered
  /\ mLast.message.origin = "web"
  /\ mLast.message.topic[3] = "input"
  /\ \E h \in Registered(mLast.message.topic) : hHandlers[h].type = "input"
  /\ mLast.invoked = {}

C37_CallbacksImplyBrokerSubscription ==
  (mClient # NoClient /\ mConnected)
    => \A topic \in DOMAIN mCallbacks : topic \in cSubs[mClient]

LifecycleEvent == mLast.op \in {"connect", "close", "error"}

\* C38: a lifecycle event of a client that connect() or disconnect() has
\* superseded never changes isConnected() and never notifies the
\* connection-state listeners, and isConnected() is true only if the current
\* client exists and is connected.
C38_SupersededClientIgnored ==
  /\ (LifecycleEvent /\ mLast.superseded)
       => (~mLast.changed /\ ~mLast.notified)
  /\ mConnected => (mClient # NoClient /\ cState[mClient] = "connected")

\* C39: after every unsubscribe function the hook returned has been called,
\* or after the hook unmounted, no handler of the hook remains registered
\* for any topic, also when the same id was subscribed more than once
\* before any unsubscribe.
C39_UnsubscribeRemovesEveryHandler ==
  (hOutstanding = {} \/ ~hMounted) => DOMAIN mCallbacks = {}

\* C40: publish() and subscribe() called while no client exists or the
\* service is not connected send nothing, register no callback and change
\* no service state; a callback passed to subscribe() before the connection
\* is established is not invoked for messages that arrive after it came up.
C40_NotConnectedIsNoOp ==
  /\ [](Delivered => \A i \in mLast.invoked : hHandlers[i.handler].ready)
  /\ [][ (mLast'.op \in {"publish", "subscribe"} /\ ~mLast'.ready)
           => UNCHANGED <<mClient, mConnected, mCallbacks, cState, cSubs,
                          inflight, hIsConnected>> ]_vars

C40_Witness ==
  /\ Delivered
  /\ mLast.message.json = "object"
  /\ mLast.message.source = "hardware"
  /\ mLast.invoked # {}
  /\ \E h \in 1..Len(hHandlers) :
       /\ ~hHandlers[h].ready
       /\ hHandlers[h].type = "input"
       /\ BuildTopic(hHandlers[h].experiment, "input", hHandlers[h].id)
            = mLast.message.topic

====
